---- MODULE Spec2Model ----
(***************************************************************************)
(* lingsync2old.py: migration of a LingSync corpus to an OLD web service.  *)
(*                                                                         *)
(* Spec      the upload phase (upload and the create_old_* functions): the *)
(*           Staging Store old_data is replayed against the destination,   *)
(*           one request at a time, and relational_map is filled in.       *)
(* SpecCons  the Staging Store fold (update_state) followed by             *)
(*           consolidate_resources.                                        *)
(*                                                                         *)
(* Conventions.  Python None / an absent key is 0 for identifiers and      *)
(* dates, <<>> for strings and nested objects.  A username is the sequence *)
(* of its characters.  The speaker key u'%s %s' % (first, last) is the     *)
(* pair <<first, last>>: names come from consultants.split(), hold no      *)
(* blank, and the joined string determines the pair.  The destination      *)
(* hands out fresh identifiers in increasing order (autoincrement).        *)
(***************************************************************************)
EXTENDS Integers, Sequences, FiniteSets, TLC

VARIABLES
    old_data,            \* upload: json.load(open(old_data_fname))
    destination,         \* the resources on the OLD (users, speakers, tags)
    pc,                  \* position of the upload run
    i,                   \* index of the loop the run is in
    relational_map,      \* upload: relational_map
    requests,            \* history: create/update/delete requests, in order
    next_id,             \* the next identifier the OLD assigns
    migration_tag_name,  \* the module-level global of that name
    to_create,           \* users_to_create / speakers_to_create / tags_to_create
    to_update,           \* users_to_update / speakers_to_update
    r,                   \* the local r: -1 unbound, 0 response without id, else id
    exit_reason,         \* "" while running, else why the run stopped
    overwrites,          \* ls_user_overwrites_old / ls_speaker_overwrites_old
    staging,             \* conversion: old_data while it is being built
    warnings,            \* conversion: whether warnings has 'general', and its set
    cpc,                 \* position of the conversion run
    options,             \* main: the command-line flags
    source,              \* the documents of the corpus on the source store
    lingsync_json,       \* the raw-documents file of the corpus, on disk
    old_json,            \* the converted Staging Store file, on disk
    local_files,         \* the media files on disk, by datum identifier
    log,                 \* history: what the runs did, in order
    mpc,                 \* position of main
    run,                 \* number of the current run of the script
    rows,                \* lingsync2old: rows
    row,                 \* lingsync2old: position in the loop over rows
    old_keys,            \* lingsync2old: the keys old_data has
    old_files,           \* lingsync2old: old_data['files']
    languages,           \* lingsync2old: languages
    downloaded_files,    \* download_lingsync_media_files: downloaded_files
    lingsync_doc,        \* process_lingsync_*: doc
    oldobj,              \* process_lingsync_*: oldobj, the Conversion Result
    folded               \* old_data after update_state of that one result

vars == <<old_data, destination, pc, i, relational_map, requests, next_id,
          migration_tag_name, to_create, to_update, r, exit_reason,
          overwrites, staging, warnings, cpc, options, source,
          lingsync_json, old_json, local_files, log, mpc, run, rows, row,
          old_keys, old_files, languages, downloaded_files, lingsync_doc,
          oldobj, folded>>

uploadVars == <<old_data, destination, pc, i, relational_map, requests,
                next_id, migration_tag_name, to_create, to_update, r,
                exit_reason, overwrites>>

convVars == <<staging, warnings, cpc>>

diskVars == <<lingsync_json, old_json, local_files>>

memoryVars == <<rows, row, old_keys, old_files, languages, downloaded_files>>

mainVars == <<options, source, diskVars, log, mpc, run, memoryVars>>

mapVars == <<lingsync_doc, oldobj, folded>>

----------------------------------------------------------------------------
(* Bounds of the model.                                                    *)

MaxUsers == 2
MaxSpeakers == 2
MaxTags == 2
MaxFiles == 2
MaxForms == 3
MaxDate == 3
MaxCorpora == 1
MaxCollections == 2
IdBase == 10

----------------------------------------------------------------------------
(* Generic helpers.                                                        *)

SeqsUpTo(S, n) == UNION {[1..k -> S] : k \in 0..n}

Range(s) == {s[k] : k \in 1..Len(s)}

EmptyMap == [x \in {} |-> 0]

\* d[k] = v on a Python dict.
MapPutMutant(m, k, v) == [x \in {k} |-> v]
MapPut(m, k, v) == [x \in (DOMAIN m) \cup {k} |-> IF x = k THEN v ELSE m[x]]

\* d.setdefault(k, []).append(v)
MapAppendMutant(m, k, v) == MapPut(m, k, <<v>>)
MapAppend(m, k, v) ==
    MapPut(m, k, IF k \in DOMAIN m THEN Append(m[k], v) ELSE <<v>>)

----------------------------------------------------------------------------
(* The universe of staged payloads.                                        *)

UA == <<"a">>
UB == <<"b", ".">>
UDot == <<".">>
Usernames == {UA, UB, UDot}

WordChars == {"a", "b"}

\* Lines 3237-3244: drop every character matched by [^\w]+.
IsWordChar(c) == c \in WordChars
SanitizeUsername(u) == SelectSeq(u, IsWordChar)

SpeakerNames == {<<"D", "S">>, <<"J", "J">>}
Dialects == {<<>>, <<"X">>}
TagNames == {"t1", "t2"}
Sessions == {"s1", "s2"}
FileStates == {"ok", "nopath", "nofile", "big"}

NoSpeaker == <<>>
NoUser == <<>>

\* FAKE_EMAIL, line 160, and DEFAULT_PASSWORD, line 159.
FAKE_EMAIL == "fakeemail@gmail.com"
DEFAULT_PASSWORD == "password9_B"

Emails == {FAKE_EMAIL, "", "u@ls.org"}
Affiliations == {"", "MIT"}
PageContents == {"", "Research interest: tone."}

\* A staged user, old_schemata['user'] (lines 397-410) as filled in by
\* process_lingsync_user, lines 1337-1341.
UserWith(u, fn, em, af, pg) ==
    [username |-> u, first_name |-> fn, last_name |-> u, email |-> em,
     affiliation |-> af, role |-> "administrator", page_content |-> pg]

\* The user made from a bare username, with the placeholder email.
User(u) == UserWith(u, u, FAKE_EMAIL, "", "")

\* A user as the destination returns it.
ExistingUser(u, id, em, af, pg) ==
    [username |-> u, first_name |-> <<"f">>, last_name |-> <<"l">>,
     email |-> em, affiliation |-> af, role |-> "viewer",
     page_content |-> pg, id |-> id]
Speaker(n, d) ==
    [first_name |-> n[1], last_name |-> n[2], dialect |-> d,
     page_content |-> <<>>]
Tag(n) == [name |-> n, description |-> <<>>]

SpeakerKey(s) == <<s.first_name, s.last_name>>

usernameOf(u) == u.username
nameOf(t) == t.name
sessionOf(c) == c.lingsync_session_id

\* No key occurs twice in a list of keys.
NoRepeat(keys) ==
    \A j, k \in 1..Len(keys) : j # k => keys[j] # keys[k]

File(d, st) == [lingsync_datum_id |-> d, local |-> st]

\* A staged form.  refs: the form carries a speaker, an elicitor, two tags and
\* a non-empty files list (process_lingsync_datum fills them from the datum).
Form(d, s, del, date, refs) ==
    [lingsync_datum_id |-> d, lingsync_session_id |-> s,
     lingsync_deleted |-> del, date_entered |-> date,
     tags |-> IF refs THEN <<"t1", "t2">> ELSE <<>>,
     speaker |-> IF refs THEN <<"D", "S">> ELSE NoSpeaker,
     elicitor |-> IF refs THEN UA ELSE NoUser,
     files |-> refs]

Corpus(d, ids, refs) ==
    [lingsync_datalist_id |-> d, datum_ids |-> ids,
     tags |-> IF refs THEN <<"t1", "t2">> ELSE <<>>]

Collection(s, refs) ==
    [lingsync_session_id |-> s,
     tags |-> IF refs THEN <<"t1", "t2">> ELSE <<>>,
     speaker |-> IF refs THEN <<"D", "S">> ELSE NoSpeaker,
     elicitor |-> IF refs THEN UA ELSE NoUser]

----------------------------------------------------------------------------
(* The Staging Stores and destinations an upload run starts from: a base   *)
(* store, varied one resource type at a time.  Users, speakers and tags    *)
(* are consolidated (one entry per natural key); datum, datalist and       *)
(* session identifiers are unique, as document identifiers are.            *)

UsersOptions ==
    {s \in SeqsUpTo({User(u) : u \in Usernames}, MaxUsers) :
        NoRepeat([k \in DOMAIN s |-> usernameOf(s[k])])}

ExistingUsersOptions ==
    {<<>>, <<ExistingUser(UA, 1, "old@old.org", "", "")>>,
     <<ExistingUser(<<"b">>, 1, "b@old.org", "", ""),
       ExistingUser(UA, 2, "old@old.org", "", "")>>}

\* One staged user meeting its counterpart on the destination, in every
\* combination of the fields the overwrite merges.
StagedDetails ==
    {<<UserWith(UA, fn, em, af, pg)>> :
        fn \in {UA, <<"F">>}, em \in Emails, af \in Affiliations,
        pg \in PageContents}

ExistingDetails ==
    {<<ExistingUser(UA, 1, "old@old.org", af, pg)>> :
        af \in {"", "UBC"}, pg \in {"", "About."}}

SpeakersOptions ==
    {s \in SeqsUpTo({Speaker(n, d) : n \in SpeakerNames, d \in Dialects},
                    MaxSpeakers) :
        NoRepeat([k \in DOMAIN s |-> SpeakerKey(s[k])])}

ExistingSpeakersOptions ==
    {<<>>} \cup
    {<<[first_name |-> "D", last_name |-> "S", dialect |-> d,
        page_content |-> <<>>, id |-> 1]>> : d \in Dialects}

TagsOptions ==
    {s \in SeqsUpTo({Tag(n) : n \in TagNames}, MaxTags) :
        NoRepeat([k \in DOMAIN s |-> nameOf(s[k])])}

ExistingTagsOptions == {<<>>, <<[name |-> "t1", id |-> 1]>>}

FilesOptions ==
    SeqsUpTo({File(d, st) : d \in 1..2, st \in FileStates}, MaxFiles)

\* Forms in every staging order of sessions and entry dates.
OrderingForms ==
    UNION {{[k \in 1..n |-> Form(k, ss[k], FALSE, ds[k], TRUE)] :
                ss \in [1..n -> Sessions], ds \in [1..n -> 1..MaxDate]} :
           n \in 0..MaxForms}

\* Forms trashed or not, entry dates descending in staging order.
DeletionForms ==
    UNION {{[k \in 1..n |-> Form(k, ss[k], del[k], n + 1 - k, TRUE)] :
                ss \in [1..n -> Sessions], del \in [1..n -> BOOLEAN]} :
           n \in 0..MaxForms}

\* Forms with and without references, with and without a dateEntered.
ReferenceForms ==
    UNION {{[k \in 1..n |-> Form(k, "s1", FALSE, ds[k], rf[k])] :
                ds \in [1..n -> 0..1], rf \in [1..n -> BOOLEAN]} :
           n \in 0..2}

FormsOptions == OrderingForms \cup DeletionForms \cup ReferenceForms

DatumLists == SeqsUpTo(1..3, 2)

CorporaOptions ==
    UNION {{[k \in 1..n |-> Corpus(k, ids[k], rf[k])] :
                ids \in [1..n -> DatumLists], rf \in [1..n -> BOOLEAN]} :
           n \in 0..MaxCorpora}

CollectionsOptions ==
    {s \in SeqsUpTo({Collection(x, rf) : x \in Sessions, rf \in BOOLEAN},
                    MaxCollections) :
        NoRepeat([k \in DOMAIN s |-> sessionOf(s[k])])}

BaseStore ==
    [users |-> <<User(UA)>>,
     speakers |-> <<Speaker(<<"D", "S">>, <<"X">>)>>,
     tags |-> <<Tag("t1")>>,
     files |-> <<File(1, "ok")>>,
     forms |-> <<Form(1, "s1", FALSE, 2, TRUE), Form(2, "s1", TRUE, 1, TRUE)>>,
     corpora |-> <<Corpus(1, <<2, 1>>, TRUE)>>,
     collections |-> <<Collection("s1", TRUE)>>]

BaseDestination == [users |-> <<>>, speakers |-> <<>>, tags |-> <<>>]

Scenario(od, dest) == [old_data |-> od, destination |-> dest]

Scenarios ==
    {Scenario([BaseStore EXCEPT !.users = us],
              [BaseDestination EXCEPT !.users = ex]) :
        us \in UsersOptions, ex \in ExistingUsersOptions}
    \cup
    {Scenario([BaseStore EXCEPT !.users = us],
              [BaseDestination EXCEPT !.users = ex]) :
        us \in StagedDetails, ex \in ExistingDetails}
    \cup
    {Scenario([BaseStore EXCEPT !.speakers = sp],
              [BaseDestination EXCEPT !.speakers = ex]) :
        sp \in SpeakersOptions, ex \in ExistingSpeakersOptions}
    \cup
    {Scenario([BaseStore EXCEPT !.tags = ts],
              [BaseDestination EXCEPT !.tags = ex]) :
        ts \in TagsOptions, ex \in ExistingTagsOptions}
    \cup
    {Scenario([BaseStore EXCEPT !.files = fs], BaseDestination) :
        fs \in FilesOptions}
    \cup
    {Scenario([BaseStore EXCEPT !.forms = fs], BaseDestination) :
        fs \in FormsOptions}
    \cup
    {Scenario([BaseStore EXCEPT !.corpora = cs], BaseDestination) :
        cs \in CorporaOptions}
    \cup
    {Scenario([BaseStore EXCEPT !.collections = cs], BaseDestination) :
        cs \in CollectionsOptions}

----------------------------------------------------------------------------
(* The upload run.                                                          *)

\* upload, lines 2566-2581: the order of the create_old_* calls.
UploadOrderMutant ==
    <<"applicationsettings", "users", "speakers", "tags", "forms", "files",
      "corpora", "collections">>
UploadOrder ==
    <<"applicationsettings", "users", "speakers", "tags", "files", "forms",
      "corpora", "collections">>

PositionIn(seq, x) == CHOOSE k \in 1..Len(seq) : seq[k] = x

\* Where the run goes when the create_old_* function of type t returns.
AfterType(t) ==
    LET k == PositionIn(UploadOrder, t)
    IN  IF k < Len(UploadOrder) THEN UploadOrder[k + 1] ELSE "summary"

MigrationTagName == "migration"
\* The name the destination stores and returns for the migration tag.
StoredMigrationTagNames == {MigrationTagName, "migration-stored"}

BlankRequest ==
    [op |-> "", rtype |-> "", src |-> 0, id |-> 0, resp |-> "",
     speaker |-> 0, elicitor |-> 0, tags |-> <<>>, files |-> <<>>,
     contents |-> <<>>, payload |-> EmptyMap]

\* c.create(rtype, payload): src is the position of the payload in
\* old_data[rtype] (0 for the migration tag), id the identifier of the
\* response (0 when it has none).
CreateRequest(rtype, src, id) ==
    [BlankRequest EXCEPT !.op = "create", !.rtype = rtype, !.src = src,
                         !.id = id, !.resp = IF id = 0 THEN "noid" ELSE "id"]

\* c.update('<rtype>/<id>', payload)
UpdateRequest(rtype, src, id, resp) ==
    [BlankRequest EXCEPT !.op = "update", !.rtype = rtype, !.src = src,
                         !.id = id, !.resp = resp]

\* c.delete('forms/<id>', {})
DeleteRequest(rtype, src, id, resp) ==
    [BlankRequest EXCEPT !.op = "delete", !.rtype = rtype, !.src = src,
                         !.id = id, !.resp = resp]

EmptyRelationalMap ==
    [users |-> EmptyMap, speakers |-> EmptyMap, tags |-> EmptyMap,
     files |-> EmptyMap, forms |-> EmptyMap, corpora |-> EmptyMap,
     collections |-> EmptyMap]

\* The answers the destination can give to a create request: an identifier
\* (the next free one) or a payload without one.
CreateResponses == {0, next_id}

\* sys.exit(...) and uncaught exceptions end the process where it stands.
Exit(reason) ==
    /\ pc' = "exited"
    /\ exit_reason' = reason

\* The exit taken when a create response carries no identifier.
OnCreateFailureMutant(reason) == UNCHANGED <<pc, exit_reason>>
OnCreateFailure(reason) == Exit(reason)

\* upload before its first request, for the Staging Store and destination sc.
UploadState(sc) ==
    /\ old_data = sc.old_data
    /\ destination = sc.destination
    /\ i = 1
    /\ relational_map = EmptyRelationalMap
    /\ requests = <<>>
    /\ next_id = IdBase + 1
    /\ migration_tag_name = ""
    /\ to_create = <<>>
    /\ to_update = <<>>
    /\ r = -1
    /\ exit_reason = ""
    /\ overwrites = [users |-> FALSE, speakers |-> FALSE]

UploadStart(sc) == UploadState(sc) /\ pc = "login"

InitUpload == \E sc \in Scenarios : UploadStart(sc)

\* lingsync2old, lines 483-487: old_data and warnings before any document.
EmptyStaging == [users |-> <<>>, speakers |-> <<>>, tags |-> <<>>]
NoWarnings == [defined |-> FALSE, general |-> {}]

IdleConversion ==
    /\ staging = EmptyStaging
    /\ warnings = NoWarnings
    /\ cpc = "idle"

\* A file that is not on disk.
NoFile == [exists |-> FALSE, has_rows |-> FALSE, rows |-> <<>>]
NoStore == [exists |-> FALSE, files |-> <<>>]

\* get_params, lines 2303-2423: the flags of the command line.
Options(fd, fc, ff) ==
    [force_download |-> fd, force_convert |-> fc, force_file_download |-> ff]

\* No document is being mapped.
NoDocument == [collection |-> ""]
NoObject == [old_resource |-> ""]
NotFolded == [done |-> FALSE]

IdleMap ==
    lingsync_doc = NoDocument /\ oldobj = NoObject /\ folded = NotFolded

\* lingsync2old has not been called.
EmptyMemory ==
    /\ rows = <<>>
    /\ row = 1
    /\ old_keys = {}
    /\ old_files = <<>>
    /\ languages = {}
    /\ downloaded_files = <<>>

\* main is not what runs: only upload, or only the conversion, does.
IdleMain ==
    /\ options = Options(FALSE, FALSE, FALSE)
    /\ source = <<>>
    /\ lingsync_json = NoFile
    /\ old_json = NoStore
    /\ local_files = {}
    /\ log = <<>>
    /\ mpc = "idle"
    /\ run = 1
    /\ EmptyMemory

Init == InitUpload /\ IdleConversion /\ IdleMain /\ IdleMap

\* upload, lines 2559-2564.
Login ==
    /\ pc = "login"
    /\ \E logged_in \in BOOLEAN :
          IF logged_in
          THEN pc' = UploadOrder[1] /\ UNCHANGED exit_reason
          ELSE Exit("login")
    /\ UNCHANGED <<old_data, destination, i, relational_map, requests, next_id,
                   migration_tag_name, to_create, to_update, r>>
    /\ UNCHANGED <<overwrites, convVars, mainVars>>
    /\ UNCHANGED mapVars

\* create_old_application_settings, lines 2494-2522.
CreateApplicationSettings ==
    /\ pc = "applicationsettings"
    /\ \E ok \in BOOLEAN :
          /\ requests' = Append(requests,
                [CreateRequest("applicationsettings", 1, 0)
                    EXCEPT !.resp = IF ok THEN "ok" ELSE "error"])
          /\ IF ok
             THEN pc' = AfterType("applicationsettings") /\ UNCHANGED exit_reason
             ELSE Exit("applicationsettings")
    /\ UNCHANGED <<old_data, destination, i, relational_map, next_id,
                   migration_tag_name, to_create, to_update, r>>
    /\ UNCHANGED <<overwrites, convVars, mainVars>>
    /\ UNCHANGED mapVars

----------------------------------------------------------------------------
(* create_old_users, lines 3167-3291.                                       *)

\* [u for u in existing if <same key>][0]
FirstMatch(existing, same) ==
    existing[CHOOSE k \in 1..Len(existing) :
                /\ existing[k] \in same
                /\ \A j \in 1..(k - 1) : existing[j] \notin same]

\* filter(None, [u.get('username') for u in existing_users])
ExistingUsernames == {u.username : u \in Range(destination.users)} \ {<<>>}

\* The key a created user is recorded under, lines 3263-3266:
\* user['__original_username'] when the username was rewritten.
UserKeyMutant(user) == SanitizeUsername(user.username)
UserKey(user) == user.username

\* Lines 3210-3228: the existing user with the staged values merged in; the
\* password fields are sent empty.
MergedUserMutant(counterpart_original, user) ==
    [username |-> counterpart_original.username,
     id |-> counterpart_original.id,
     first_name |-> user.first_name,
     last_name |-> user.last_name,
     email |-> user.email,
     affiliation |-> user.affiliation,
     role |-> user.role,
     page_content |-> user.page_content,
     password |-> DEFAULT_PASSWORD,
     password_confirm |-> DEFAULT_PASSWORD]
MergedUser(counterpart_original, user) ==
    [username |-> counterpart_original.username,
     id |-> counterpart_original.id,
     first_name |-> IF user.first_name # counterpart_original.username
                    THEN user.first_name
                    ELSE counterpart_original.first_name,
     last_name |-> IF user.last_name # counterpart_original.username
                   THEN user.last_name
                   ELSE counterpart_original.last_name,
     email |-> IF user.email # FAKE_EMAIL
               THEN user.email ELSE counterpart_original.email,
     affiliation |-> IF user.affiliation # ""
                     THEN user.affiliation
                     ELSE counterpart_original.affiliation,
     role |-> user.role,
     page_content |-> IF user.page_content # ""
                      THEN user.page_content
                      ELSE counterpart_original.page_content,
     password |-> "",
     password_confirm |-> ""]

\* The record the destination keeps of an updated user.
StoredUser(counterpart) ==
    [f \in DOMAIN counterpart \ {"password", "password_confirm"} |->
        counterpart[f]]

\* Lines 3206-3256: sort the staged users into users_to_create and
\* users_to_update, or record the existing identifier.
RECURSIVE PopulateUsers(_, _, _)
PopulateUsers(k, acc, overwrite) ==
    IF k > Len(old_data.users) \/ acc.exit
    THEN acc
    ELSE LET user == old_data.users[k]
             Same == {u \in Range(destination.users) :
                         u.username = user.username}
         IN  IF user.username \in ExistingUsernames
             THEN LET counterpart_original ==
                          FirstMatch(destination.users, Same)
                  IN  IF overwrite
                      THEN PopulateUsers(k + 1,
                              [acc EXCEPT !.to_update =
                                  Append(@, [src |-> k,
                                             id |-> counterpart_original.id,
                                             counterpart |->
                                                MergedUser(counterpart_original,
                                                           user)])],
                              overwrite)
                      ELSE PopulateUsers(k + 1,
                              [acc EXCEPT !.map =
                                  MapPut(@, counterpart_original.username,
                                         counterpart_original.id)],
                              overwrite)
             ELSE IF SanitizeUsername(user.username) = <<>>
                  THEN [acc EXCEPT !.exit = TRUE]
                  ELSE PopulateUsers(k + 1,
                          [acc EXCEPT !.to_create = Append(@, k)], overwrite)

\* The answers to raw_input: asked only when there are duplicates.
OverwriteAnswers(duplicates) == IF duplicates # {} THEN BOOLEAN ELSE {FALSE}

CreateOldUsers ==
    /\ pc = "users"
    /\ IF old_data.users = <<>>
       THEN /\ pc' = AfterType("users")
            /\ UNCHANGED <<relational_map, to_create, to_update, exit_reason,
                           overwrites>>
       ELSE \E ls_user_overwrites_old \in OverwriteAnswers(
                    ExistingUsernames \cap
                    {u.username : u \in Range(old_data.users)}) :
              LET res == PopulateUsers(1,
                            [map |-> relational_map.users, to_create |-> <<>>,
                             to_update |-> <<>>, exit |-> FALSE],
                            ls_user_overwrites_old)
              IN  /\ overwrites' = [overwrites EXCEPT
                                        !.users = ls_user_overwrites_old]
                  /\ relational_map' = [relational_map EXCEPT !.users = res.map]
                  /\ IF res.exit
                     THEN Exit("username") /\ UNCHANGED <<to_create, to_update>>
                     ELSE /\ pc' = "users_create"
                          /\ to_create' = res.to_create
                          /\ to_update' = res.to_update
                          /\ UNCHANGED exit_reason
    /\ i' = 1
    /\ UNCHANGED <<old_data, destination, requests, next_id,
                   migration_tag_name, r>>
    /\ UNCHANGED <<convVars, mainVars>>
    /\ UNCHANGED mapVars

\* Lines 3259-3272: one POST of users_to_create.
CreateUser ==
    /\ pc = "users_create"
    /\ i <= Len(to_create)
    /\ LET user == old_data.users[to_create[i]]
       IN  \E id \in CreateResponses :
              /\ requests' = Append(requests,
                                    CreateRequest("users", to_create[i], id))
              /\ IF id # 0
                 THEN /\ relational_map' =
                            [relational_map EXCEPT
                                !.users = MapPut(@, UserKey(user), id)]
                      /\ destination' =
                            [destination EXCEPT !.users = Append(@,
                                [username |-> SanitizeUsername(user.username),
                                 first_name |-> user.first_name,
                                 last_name |-> user.last_name,
                                 email |-> user.email,
                                 affiliation |-> user.affiliation,
                                 role |-> user.role,
                                 page_content |-> user.page_content,
                                 id |-> id])]
                      /\ next_id' = next_id + 1
                      /\ i' = i + 1
                      /\ UNCHANGED <<pc, exit_reason>>
                 ELSE /\ OnCreateFailure("create users")
                      /\ UNCHANGED <<relational_map, destination, next_id, i>>
    /\ UNCHANGED <<old_data, migration_tag_name, to_create, to_update, r>>
    /\ UNCHANGED <<overwrites, convVars, mainVars>>
    /\ UNCHANGED mapVars

\* The answers to an update request: the updated resource, the error "the
\* submitted data were not new", or another error payload.
UpdateResponses == {"id", "not_new", "noid"}

\* Lines 3273-3287: one PUT of users_to_update.
UpdateUser ==
    /\ pc = "users_update"
    /\ i <= Len(to_update)
    /\ LET user == to_update[i]
       IN  \E resp \in UpdateResponses :
              /\ requests' = Append(requests,
                    [UpdateRequest("users", user.src, user.id, resp)
                        EXCEPT !.payload = user.counterpart])
              /\ destination' =
                    IF resp = "id"
                    THEN [destination EXCEPT !.users =
                            [k \in DOMAIN @ |->
                                IF @[k].id = user.id
                                THEN StoredUser(user.counterpart) ELSE @[k]]]
                    ELSE destination
              /\ IF resp \in {"id", "not_new"}
                 THEN /\ relational_map' =
                            [relational_map EXCEPT !.users =
                                MapPut(@, old_data.users[user.src].username,
                                       user.id)]
                      /\ i' = i + 1
                      /\ UNCHANGED <<pc, exit_reason>>
                 ELSE /\ Exit("update users")
                      /\ UNCHANGED <<relational_map, i>>
    /\ UNCHANGED <<old_data, next_id, migration_tag_name,
                   to_create, to_update, r>>
    /\ UNCHANGED <<overwrites, convVars, mainVars>>
    /\ UNCHANGED mapVars

----------------------------------------------------------------------------
(* create_old_speakers, lines 3073-3164.                                    *)

ExistingSpeakerNames == {SpeakerKey(s) : s \in Range(destination.speakers)}

\* Lines 3121-3126: the existing speaker with the staged values merged in.
MergedSpeaker(counterpart_original, speaker) ==
    [counterpart_original EXCEPT
        !.dialect = IF speaker.dialect # @ THEN speaker.dialect ELSE @,
        !.page_content = IF speaker.page_content # <<>>
                            /\ speaker.page_content # @
                         THEN speaker.page_content ELSE @]

\* Lines 3114-3134.
RECURSIVE PopulateSpeakers(_, _, _)
PopulateSpeakers(k, acc, overwrite) ==
    IF k > Len(old_data.speakers)
    THEN acc
    ELSE LET speaker == old_data.speakers[k]
             Same == {s \in Range(destination.speakers) :
                         SpeakerKey(s) = SpeakerKey(speaker)}
         IN  IF SpeakerKey(speaker) \in ExistingSpeakerNames
             THEN LET counterpart_original ==
                          FirstMatch(destination.speakers, Same)
                      counterpart ==
                          MergedSpeaker(counterpart_original, speaker)
                  IN  IF overwrite
                      THEN IF counterpart_original # counterpart
                           THEN PopulateSpeakers(k + 1,
                                   [acc EXCEPT !.to_update =
                                       Append(@, [src |-> k,
                                                  id |-> counterpart.id])],
                                   overwrite)
                           ELSE PopulateSpeakers(k + 1, acc, overwrite)
                      ELSE PopulateSpeakers(k + 1,
                              [acc EXCEPT !.map =
                                  MapPut(@, SpeakerKey(counterpart_original),
                                         counterpart_original.id)],
                              overwrite)
             ELSE PopulateSpeakers(k + 1,
                     [acc EXCEPT !.to_create = Append(@, k)], overwrite)

CreateOldSpeakers ==
    /\ pc = "speakers"
    /\ IF old_data.speakers = <<>>
       THEN /\ pc' = AfterType("speakers")
            /\ UNCHANGED <<relational_map, to_create, to_update, overwrites>>
       ELSE \E ls_speaker_overwrites_old \in OverwriteAnswers(
                    ExistingSpeakerNames \cap
                    {SpeakerKey(s) : s \in Range(old_data.speakers)}) :
              LET res == PopulateSpeakers(1,
                            [map |-> relational_map.speakers,
                             to_create |-> <<>>, to_update |-> <<>>],
                            ls_speaker_overwrites_old)
              IN  /\ overwrites' = [overwrites EXCEPT
                                        !.speakers = ls_speaker_overwrites_old]
                  /\ relational_map' =
                        [relational_map EXCEPT !.speakers = res.map]
                  /\ pc' = "speakers_create"
                  /\ to_create' = res.to_create
                  /\ to_update' = res.to_update
    /\ i' = 1
    /\ r' = -1
    /\ UNCHANGED <<old_data, destination, requests, next_id,
                   migration_tag_name, exit_reason>>
    /\ UNCHANGED <<convVars, mainVars>>
    /\ UNCHANGED mapVars

\* Lines 3137-3146: one POST of speakers_to_create.
CreateSpeaker ==
    /\ pc = "speakers_create"
    /\ i <= Len(to_create)
    /\ LET speaker == old_data.speakers[to_create[i]]
       IN  \E id \in CreateResponses :
              /\ requests' = Append(requests,
                                    CreateRequest("speakers", to_create[i], id))
              /\ r' = id
              /\ IF id # 0
                 THEN /\ relational_map' =
                            [relational_map EXCEPT
                                !.speakers = MapPut(@, SpeakerKey(speaker), id)]
                      /\ destination' =
                            [destination EXCEPT !.speakers = Append(@,
                                [first_name |-> speaker.first_name,
                                 last_name |-> speaker.last_name,
                                 dialect |-> speaker.dialect,
                                 page_content |-> speaker.page_content,
                                 id |-> id])]
                      /\ next_id' = next_id + 1
                      /\ i' = i + 1
                      /\ UNCHANGED <<pc, exit_reason>>
                 ELSE /\ OnCreateFailure("create speakers")
                      /\ UNCHANGED <<relational_map, destination, next_id, i>>
    /\ UNCHANGED <<old_data, migration_tag_name, to_create, to_update>>
    /\ UNCHANGED <<overwrites, convVars, mainVars>>
    /\ UNCHANGED mapVars

\* Lines 3147-3161: one PUT of speakers_to_update.  Line 3148 reads r['id']
\* of the latest response before the request is sent: r is unbound when no
\* speaker was created, and has no id after a "not new" answer.
UpdateSpeaker ==
    /\ pc = "speakers_update"
    /\ i <= Len(to_update)
    /\ LET speaker == to_update[i]
       IN  IF r <= 0
           THEN /\ Exit("exception: r['id']")
                /\ UNCHANGED <<relational_map, requests, i, r>>
           ELSE \E resp \in UpdateResponses :
                  /\ requests' = Append(requests,
                        UpdateRequest("speakers", speaker.src, speaker.id, resp))
                  /\ r' = IF resp = "id" THEN speaker.id ELSE 0
                  /\ IF resp \in {"id", "not_new"}
                     THEN /\ relational_map' =
                                [relational_map EXCEPT !.speakers =
                                    MapPut(@,
                                       SpeakerKey(old_data.speakers[speaker.src]),
                                       speaker.id)]
                          /\ i' = i + 1
                          /\ UNCHANGED <<pc, exit_reason>>
                     ELSE /\ Exit("update speakers")
                          /\ UNCHANGED <<relational_map, i>>
    /\ UNCHANGED <<old_data, destination, next_id, migration_tag_name,
                   to_create, to_update>>
    /\ UNCHANGED <<overwrites, convVars, mainVars>>
    /\ UNCHANGED mapVars

----------------------------------------------------------------------------
(* create_old_tags, lines 3004-3070.                                        *)

\* Lines 3048-3054: reuse the existing tags, collect the others.
RECURSIVE PopulateTags(_, _, _)
PopulateTags(k, acc, existing_tags) ==
    IF k > Len(old_data.tags)
    THEN acc
    ELSE LET tag == old_data.tags[k]
             Same == {t \in Range(existing_tags) : t.name = tag.name}
         IN  IF tag.name \in {t.name : t \in Range(existing_tags)}
             THEN LET counterpart == FirstMatch(existing_tags, Same)
                  IN  PopulateTags(k + 1,
                         [acc EXCEPT !.map =
                             MapPut(@, counterpart.name, counterpart.id)],
                         existing_tags)
             ELSE PopulateTags(k + 1,
                     [acc EXCEPT !.to_create = Append(@, k)], existing_tags)

\* Lines 3012-3054: the migration tag is created first; then the existing
\* tags are fetched and the staged tags sorted.
CreateOldTags ==
    /\ pc = "tags"
    /\ migration_tag_name' = MigrationTagName
    /\ \E id \in CreateResponses, stored \in StoredMigrationTagNames :
          /\ requests' = Append(requests, CreateRequest("tags", 0, id))
          /\ IF id # 0
             THEN LET existing_tags ==
                          Append(destination.tags, [name |-> stored, id |-> id])
                      res == PopulateTags(1,
                                [map |-> MapPut(relational_map.tags, stored, id),
                                 to_create |-> <<>>],
                                existing_tags)
                  IN  /\ destination' = [destination EXCEPT !.tags = existing_tags]
                      /\ next_id' = next_id + 1
                      /\ IF old_data.tags # <<>>
                         THEN /\ relational_map' =
                                    [relational_map EXCEPT !.tags = res.map]
                              /\ to_create' = res.to_create
                              /\ pc' = "tags_create"
                         ELSE /\ relational_map' =
                                    [relational_map EXCEPT
                                        !.tags = MapPut(@, stored, id)]
                              /\ to_create' = <<>>
                              /\ pc' = AfterType("tags")
                      /\ UNCHANGED exit_reason
             ELSE /\ OnCreateFailure("create migration tag")
                  /\ UNCHANGED <<relational_map, destination, next_id,
                                 to_create>>
    /\ i' = 1
    /\ UNCHANGED <<old_data, to_update, r>>
    /\ UNCHANGED <<overwrites, convVars, mainVars>>
    /\ UNCHANGED mapVars

\* Lines 3057-3066: one POST of tags_to_create.
CreateTag ==
    /\ pc = "tags_create"
    /\ i <= Len(to_create)
    /\ LET tag == old_data.tags[to_create[i]]
       IN  \E id \in CreateResponses :
              /\ requests' = Append(requests,
                                    CreateRequest("tags", to_create[i], id))
              /\ IF id # 0
                 THEN /\ relational_map' =
                            [relational_map EXCEPT
                                !.tags = MapPut(@, tag.name, id)]
                      /\ destination' =
                            [destination EXCEPT !.tags =
                                Append(@, [name |-> tag.name, id |-> id])]
                      /\ next_id' = next_id + 1
                      /\ i' = i + 1
                      /\ UNCHANGED <<pc, exit_reason>>
                 ELSE /\ OnCreateFailure("create tags")
                      /\ UNCHANGED <<relational_map, destination, next_id, i>>
    /\ UNCHANGED <<old_data, migration_tag_name, to_create, to_update, r>>
    /\ UNCHANGED <<overwrites, convVars, mainVars>>
    /\ UNCHANGED mapVars

----------------------------------------------------------------------------
(* create_old_files, lines 2934-2985.                                       *)

\* Lines 2949-2963: no path, no file at the path, or a file over 20MB: the
\* file is passed over without a request.
FileIsUploaded(file) == file.local = "ok"

CreateFile ==
    /\ pc = "files"
    /\ i <= Len(old_data.files)
    /\ LET file == old_data.files[i]
       IN  IF ~FileIsUploaded(file)
           THEN /\ i' = i + 1
                /\ UNCHANGED <<relational_map, requests, next_id, pc,
                               exit_reason>>
           ELSE \E id \in CreateResponses :
                  /\ requests' = Append(requests, CreateRequest("files", i, id))
                  /\ IF id # 0
                     THEN /\ relational_map' =
                                [relational_map EXCEPT !.files =
                                    MapAppend(@, file.lingsync_datum_id, id)]
                          /\ next_id' = next_id + 1
                          /\ i' = i + 1
                          /\ UNCHANGED <<pc, exit_reason>>
                     ELSE /\ OnCreateFailure("create files")
                          /\ UNCHANGED <<relational_map, next_id, i>>
    /\ UNCHANGED <<old_data, destination, migration_tag_name, to_create,
                   to_update, r>>
    /\ UNCHANGED <<overwrites, convVars, mainVars>>
    /\ UNCHANGED mapVars

----------------------------------------------------------------------------
(* Reference resolution, shared by forms, corpora and collections.          *)

\* relational_map.get('tags', {}).get(migration_tag_name): 0 for None.
MigrationTagId ==
    IF migration_tag_name \in DOMAIN relational_map.tags
    THEN relational_map.tags[migration_tag_name] ELSE 0

\* Lines 2848-2858 (2671-2681, 2776-2786): tag objects to tag ids; a tag
\* without an id is left out.
ResolveTagsMutant(tags) ==
    [k \in 1..Len(tags) |->
        IF tags[k] \in DOMAIN relational_map.tags
        THEN relational_map.tags[tags[k]] ELSE 0]
ResolveTags(tags) ==
    LET known(n) == n \in DOMAIN relational_map.tags
        found == SelectSeq(tags, known)
    IN  [k \in 1..Len(found) |-> relational_map.tags[found[k]]]

\* Lines 2861-2871 (2684-2694): the speaker object to a speaker id or None.
ResolveSpeakerMutant(speaker) ==
    IF speaker = NoSpeaker THEN 0
    ELSE IF speaker \in DOMAIN relational_map.speakers
         THEN relational_map.speakers[speaker] ELSE next_id
ResolveSpeaker(speaker) ==
    IF speaker = NoSpeaker THEN 0
    ELSE IF speaker \in DOMAIN relational_map.speakers
         THEN relational_map.speakers[speaker] ELSE 0

\* Lines 2874-2883 (2697-2706): the elicitor object to a user id or None.
ResolveElicitor(elicitor) ==
    IF elicitor = NoUser THEN 0
    ELSE IF elicitor \in DOMAIN relational_map.users
         THEN relational_map.users[elicitor] ELSE 0

\* Lines 2886-2894: the file objects of a form to the file ids of its datum.
ResolveFiles(form) ==
    IF form.files /\ form.lingsync_datum_id \in DOMAIN relational_map.files
    THEN relational_map.files[form.lingsync_datum_id]
    ELSE <<>>

\* The check made before any form, corpus or collection is created
\* (lines 2835-2840, 2762-2767, 2658-2663), and where it leads.
BeginType(t, list, loop) ==
    /\ pc = t
    /\ IF list = <<>>
       THEN pc' = AfterType(t) /\ UNCHANGED exit_reason
       ELSE IF MigrationTagId = 0
            THEN Exit("migration tag")
            ELSE pc' = loop /\ UNCHANGED exit_reason
    /\ i' = 1
    /\ r' = -1
    /\ UNCHANGED <<old_data, destination, relational_map, requests, next_id,
                   migration_tag_name, to_create, to_update>>
    /\ UNCHANGED <<overwrites, convVars, mainVars>>
    /\ UNCHANGED mapVars

----------------------------------------------------------------------------
(* create_old_forms, lines 2820-2931.                                       *)

CreateOldForms == BeginType("forms", old_data.forms, "forms_loop")

\* Lines 2908-2911: trashed forms are not recorded in the relational map.
FormIsRecorded(form) == ~form.lingsync_deleted

\* Lines 2843-2915: one form is resolved and POSTed.
CreateForm ==
    /\ pc = "forms_loop"
    /\ i <= Len(old_data.forms)
    /\ LET form == old_data.forms[i]
       IN  \E id \in CreateResponses :
              /\ requests' = Append(requests,
                    [CreateRequest("forms", i, id) EXCEPT
                        !.tags = Append(ResolveTags(form.tags), MigrationTagId),
                        !.speaker = ResolveSpeaker(form.speaker),
                        !.elicitor = ResolveElicitor(form.elicitor),
                        !.files = ResolveFiles(form)])
              /\ r' = id
              /\ IF id # 0
                 THEN /\ relational_map' =
                            IF FormIsRecorded(form)
                            THEN [relational_map EXCEPT !.forms =
                                     MapPut(@, form.lingsync_datum_id, id)]
                            ELSE relational_map
                      /\ next_id' = next_id + 1
                      /\ IF form.lingsync_deleted
                         THEN pc' = "form_delete" /\ i' = i
                         ELSE pc' = pc /\ i' = i + 1
                      /\ UNCHANGED exit_reason
                 ELSE /\ OnCreateFailure("create forms")
                      /\ UNCHANGED <<relational_map, next_id, i>>
    /\ UNCHANGED <<old_data, destination, migration_tag_name, to_create,
                   to_update>>
    /\ UNCHANGED <<overwrites, convVars, mainVars>>
    /\ UNCHANGED mapVars

\* The form a trashed form's DELETE is addressed to: 'forms/%s' % r['id'].
DeleteTargetMutant(created) == created - 1
DeleteTarget(created) == created

\* Lines 2919-2928: the form just created is deleted again.
DeleteForm ==
    /\ pc = "form_delete"
    /\ \E resp \in {"id", "noid"} :
          /\ requests' = Append(requests,
                DeleteRequest("forms", i, DeleteTarget(r), resp))
          /\ IF resp = "id"
             THEN pc' = "forms_loop" /\ i' = i + 1 /\ UNCHANGED exit_reason
             ELSE Exit("delete forms") /\ i' = i
    /\ UNCHANGED <<old_data, destination, relational_map, next_id,
                   migration_tag_name, to_create, to_update, r>>
    /\ UNCHANGED <<overwrites, convVars, mainVars>>
    /\ UNCHANGED mapVars

----------------------------------------------------------------------------
(* create_old_corpora, lines 2750-2817.                                     *)

CreateOldCorpora == BeginType("corpora", old_data.corpora, "corpora_loop")

\* Lines 2789-2800: the form ids of the datums of the datalist, in its order.
CorpusContent(datum_ids_array) ==
    LET known(d) == d \in DOMAIN relational_map.forms
        found == SelectSeq(datum_ids_array, known)
    IN  [k \in 1..Len(found) |-> relational_map.forms[found[k]]]

\* Lines 2770-2813: one corpus is resolved and POSTed.
CreateCorpus ==
    /\ pc = "corpora_loop"
    /\ i <= Len(old_data.corpora)
    /\ LET corpus == old_data.corpora[i]
       IN  \E id \in CreateResponses :
              /\ requests' = Append(requests,
                    [CreateRequest("corpora", i, id) EXCEPT
                        !.tags = Append(ResolveTags(corpus.tags), MigrationTagId),
                        !.contents = CorpusContent(corpus.datum_ids)])
              /\ IF id # 0
                 THEN /\ relational_map' =
                            [relational_map EXCEPT !.corpora =
                                MapPut(@, corpus.lingsync_datalist_id, id)]
                      /\ next_id' = next_id + 1
                      /\ i' = i + 1
                      /\ UNCHANGED <<pc, exit_reason>>
                 ELSE /\ OnCreateFailure("create corpora")
                      /\ UNCHANGED <<relational_map, next_id, i>>
    /\ UNCHANGED <<old_data, destination, migration_tag_name, to_create,
                   to_update, r>>
    /\ UNCHANGED <<overwrites, convVars, mainVars>>
    /\ UNCHANGED mapVars

----------------------------------------------------------------------------
(* create_old_collections, lines 2646-2747.                                 *)

CreateOldCollections ==
    BeginType("collections", old_data.collections, "collections_loop")

\* Lines 2713-2720: the forms that enter the contents of a collection.
InContents(form, session_id) ==
    /\ ~form.lingsync_deleted
    /\ form.lingsync_session_id = session_id
    /\ form.lingsync_datum_id \in DOMAIN relational_map.forms

\* Python's order on the tuples (form['date_entered'], form_id).
TupleLeqMutant(x, y) == x[2] <= y[2]
TupleLeq(x, y) == x[1] < y[1] \/ (x[1] = y[1] /\ x[2] <= y[2])

\* sorted(contents)
RECURSIVE Sorted(_)
Sorted(S) ==
    IF S = {} THEN <<>>
    ELSE LET least == CHOOSE x \in S : \A y \in S : TupleLeq(x, y)
         IN  <<least>> \o Sorted(S \ {least})

\* Lines 2712-2730: the form ids of the session, by date entered.
CollectionContents(session_id) ==
    LET in(form) == InContents(form, session_id)
        forms == SelectSeq(old_data.forms, in)
        contents == {<<forms[k].date_entered,
                       relational_map.forms[forms[k].lingsync_datum_id]>> :
                     k \in 1..Len(forms)}
        sorted == Sorted(contents)
    IN  [k \in 1..Len(sorted) |-> sorted[k][2]]

\* form['date_entered'] raises KeyError for a form converted from a datum
\* without dateEntered (lines 1794-1797 leave the key out).
ContentsRaises(session_id) ==
    \E form \in Range(old_data.forms) :
        InContents(form, session_id) /\ form.date_entered = 0

\* Lines 2666-2743: one collection is resolved and POSTed.
CreateCollection ==
    /\ pc = "collections_loop"
    /\ i <= Len(old_data.collections)
    /\ LET collection == old_data.collections[i]
           session_id == collection.lingsync_session_id
       IN  IF ContentsRaises(session_id)
           THEN /\ Exit("exception: date_entered")
                /\ UNCHANGED <<relational_map, requests, next_id, i>>
           ELSE \E id \in CreateResponses :
                  /\ requests' = Append(requests,
                        [CreateRequest("collections", i, id) EXCEPT
                            !.tags = Append(ResolveTags(collection.tags),
                                            MigrationTagId),
                            !.speaker = ResolveSpeaker(collection.speaker),
                            !.elicitor = ResolveElicitor(collection.elicitor),
                            !.contents = CollectionContents(session_id)])
                  /\ IF id # 0
                     THEN /\ relational_map' =
                                [relational_map EXCEPT !.collections =
                                    MapPut(@, session_id, id)]
                          /\ next_id' = next_id + 1
                          /\ i' = i + 1
                          /\ UNCHANGED <<pc, exit_reason>>
                     ELSE /\ OnCreateFailure("create collections")
                          /\ UNCHANGED <<relational_map, next_id, i>>
    /\ UNCHANGED <<old_data, destination, migration_tag_name, to_create,
                   to_update, r>>
    /\ UNCHANGED <<overwrites, convVars, mainVars>>
    /\ UNCHANGED mapVars

----------------------------------------------------------------------------
(* Loop exits and the end of the run.                                       *)

LoopPcs ==
    {"users_create", "users_update", "speakers_create", "speakers_update",
     "tags_create", "files", "forms_loop", "corpora_loop", "collections_loop"}

LoopLength ==
    CASE pc \in {"users_create", "speakers_create", "tags_create"} ->
            Len(to_create)
      [] pc \in {"users_update", "speakers_update"} -> Len(to_update)
      [] pc = "files" -> Len(old_data.files)
      [] pc = "forms_loop" -> Len(old_data.forms)
      [] pc = "corpora_loop" -> Len(old_data.corpora)
      [] pc = "collections_loop" -> Len(old_data.collections)

AfterLoop ==
    CASE pc = "users_create" -> "users_update"
      [] pc = "users_update" -> AfterType("users")
      [] pc = "speakers_create" -> "speakers_update"
      [] pc = "speakers_update" -> AfterType("speakers")
      [] pc = "tags_create" -> AfterType("tags")
      [] pc = "files" -> AfterType("files")
      [] pc = "forms_loop" -> AfterType("forms")
      [] pc = "corpora_loop" -> AfterType("corpora")
      [] pc = "collections_loop" -> AfterType("collections")

\* A for loop runs out: the next loop of the function starts, or the
\* function returns and upload calls the next one.
EndOfLoop ==
    /\ pc \in LoopPcs
    /\ i > LoopLength
    /\ pc' = AfterLoop
    /\ i' = 1
    /\ IF pc \in {"users_create", "speakers_create"}
       THEN UNCHANGED <<to_create, to_update, r>>
       ELSE to_create' = <<>> /\ to_update' = <<>> /\ r' = -1
    /\ UNCHANGED <<old_data, destination, relational_map, requests, next_id,
                   migration_tag_name, exit_reason>>
    /\ UNCHANGED <<overwrites, convVars, mainVars>>
    /\ UNCHANGED mapVars

\* upload, lines 2583-2621: the summary is printed and upload returns.
Summary ==
    /\ pc = "summary"
    /\ pc' = "done"
    /\ UNCHANGED <<old_data, destination, i, relational_map, requests, next_id,
                   migration_tag_name, to_create, to_update, r, exit_reason>>
    /\ UNCHANGED <<overwrites, convVars, mainVars>>
    /\ UNCHANGED mapVars

Next ==
    \/ Login
    \/ CreateApplicationSettings
    \/ CreateOldUsers
    \/ CreateUser
    \/ UpdateUser
    \/ CreateOldSpeakers
    \/ CreateSpeaker
    \/ UpdateSpeaker
    \/ CreateOldTags
    \/ CreateTag
    \/ CreateFile
    \/ CreateOldForms
    \/ CreateForm
    \/ DeleteForm
    \/ CreateOldCorpora
    \/ CreateCorpus
    \/ CreateOldCollections
    \/ CreateCollection
    \/ EndOfLoop
    \/ Summary

Spec == Init /\ [][Next]_vars

TypeOK ==
    /\ pc \in LoopPcs \cup Range(UploadOrder) \cup
              {"login", "form_delete", "summary", "done", "exited"}
    /\ i \in 1..(MaxForms + MaxUsers + MaxFiles + 5)
    /\ (exit_reason # "") = (pc = "exited")

----------------------------------------------------------------------------
(* Properties of the upload.                                                *)

RequestIndices == 1..Len(requests)

\* The requests of the log that are creates, updates, deletes.
IsCreate(k) == requests[k].op = "create"
IsUpdate(k) == requests[k].op = "update"
IsDelete(k) == requests[k].op = "delete"

\* The order of resource types the upload is said to follow.
DependencyOrder ==
    <<"applicationsettings", "users", "speakers", "tags", "files", "forms",
      "corpora", "collections">>

DependencyRank(t) == PositionIn(DependencyOrder, t)

\* C1: requests are issued type by type in the order application settings,
\* users, speakers, tags, files, forms, corpora, collections: no create or
\* update of a type is issued after a create of a type later in that order.
C1_TypeByTypeOrder ==
    \A j, k \in RequestIndices :
        (j < k /\ IsCreate(j) /\ (IsCreate(k) \/ IsUpdate(k)))
            => DependencyRank(requests[j].rtype)
                  <= DependencyRank(requests[k].rtype)

\* A finished run that created a resource of every one of the eight types.
C1_Witness ==
    /\ pc = "done"
    /\ {requests[k].rtype : k \in {j \in RequestIndices : IsCreate(j)}}
          = Range(DependencyOrder)

\* The types whose create must answer with an identifier.
IdentifiedTypes ==
    {"users", "speakers", "tags", "files", "forms", "corpora", "collections"}

FailedCreate(k) ==
    /\ IsCreate(k)
    /\ requests[k].rtype \in IdentifiedTypes
    /\ requests[k].id = 0

\* C2: a create answered without an identifier ends the run at once: it is
\* the last request of the run (no later create, update or delete, so nothing
\* created before is deleted or rolled back), and after a failed tag create
\* no form, corpus or collection create exists.
C2_FailedCreateAborts ==
    \A k \in RequestIndices :
        FailedCreate(k) =>
            /\ k = Len(requests)
            /\ pc = "exited"
            /\ requests[k].rtype = "tags" =>
                  \A j \in RequestIndices :
                      IsCreate(j) =>
                          requests[j].rtype \notin
                              {"forms", "corpora", "collections"}

\* A tag create failed after users and speakers had been created, and the
\* run has stopped with these still in place on the destination.
C2_Witness ==
    /\ pc = "exited"
    /\ requests # <<>>
    /\ FailedCreate(Len(requests))
    /\ requests[Len(requests)].rtype = "tags"
    /\ \E j, k \in RequestIndices :
          /\ IsCreate(j) /\ requests[j].rtype = "users" /\ requests[j].id # 0
          /\ IsCreate(k) /\ requests[k].rtype = "speakers" /\ requests[k].id # 0
          /\ \E u \in Range(destination.users) : u.id = requests[j].id

SuccessfulCreate(k) == IsCreate(k) /\ requests[k].id # 0

\* The map of a type holds identifier id under key.
Holds(map, key, id) == key \in DOMAIN map /\ map[key] = id

\* The name the destination returned for the tag it stored under id.
ReturnedTagName(id) ==
    (CHOOSE t \in Range(destination.tags) : t.id = id).name

\* The Relational Map holds the identifier of the k-th request under the
\* natural key of the resource that request created.
RecordedUnderNaturalKey(k) ==
    LET req == requests[k]
    IN  CASE req.rtype = "users" ->
                Holds(relational_map.users,
                      old_data.users[req.src].username, req.id)
          [] req.rtype = "speakers" ->
                Holds(relational_map.speakers,
                      SpeakerKey(old_data.speakers[req.src]), req.id)
          [] req.rtype = "tags" ->
                Holds(relational_map.tags,
                      IF req.src = 0 THEN ReturnedTagName(req.id)
                      ELSE old_data.tags[req.src].name, req.id)
          [] req.rtype = "forms" ->
                Holds(relational_map.forms,
                      old_data.forms[req.src].lingsync_datum_id, req.id)
          [] req.rtype = "corpora" ->
                Holds(relational_map.corpora,
                      old_data.corpora[req.src].lingsync_datalist_id, req.id)
          [] req.rtype = "collections" ->
                Holds(relational_map.collections,
                      old_data.collections[req.src].lingsync_session_id,
                      req.id)
          [] OTHER -> TRUE

SourceDeleted(k) ==
    requests[k].rtype = "forms" /\ old_data.forms[requests[k].src].lingsync_deleted

\* C3 as stated: after every successful create the Relational Map holds the
\* new identifier under the resource's natural key, whatever flags the staged
\* payload carries.
C3_EveryCreateRecorded ==
    \A k \in RequestIndices : SuccessfulCreate(k) => RecordedUnderNaturalKey(k)

\* C3 amended: after every successful create the Relational Map holds the
\* new identifier under the resource's natural key, except for a form
\* flagged source-deleted, whose datum identifier is never mapped.
C3_CreateRecordedUnlessDeleted ==
    \A k \in RequestIndices :
        SuccessfulCreate(k) =>
            IF SourceDeleted(k)
            THEN old_data.forms[requests[k].src].lingsync_datum_id
                    \notin DOMAIN relational_map.forms
            ELSE RecordedUnderNaturalKey(k)

\* A finished run that created a user whose username had to be rewritten,
\* a form flagged source-deleted and a form not so flagged.
C3_Witness ==
    /\ pc = "done"
    /\ \E k \in RequestIndices :
          /\ SuccessfulCreate(k) /\ requests[k].rtype = "users"
          /\ SanitizeUsername(old_data.users[requests[k].src].username)
                # old_data.users[requests[k].src].username
    /\ \E k \in RequestIndices : SuccessfulCreate(k) /\ SourceDeleted(k)
    /\ \E k \in RequestIndices :
          /\ SuccessfulCreate(k) /\ requests[k].rtype = "forms"
          /\ ~SourceDeleted(k)

\* The positions of a list of references that have an entry in a map.
ResolvedPositions(refs, map) ==
    {q \in 1..Len(refs) : refs[q] \in DOMAIN map}

\* The tag identifiers of a request: one per staged tag with an entry, none
\* for the others, then the migration tag.
TagsDowngraded(req, tags) ==
    /\ Len(req.tags)
          = Cardinality(ResolvedPositions(tags, relational_map.tags)) + 1
    /\ \A q \in 1..Len(req.tags) : req.tags[q] # 0

SpeakerDowngraded(req, speaker) ==
    speaker \notin DOMAIN relational_map.speakers => req.speaker = 0

ElicitorDowngraded(req, elicitor) ==
    elicitor \notin DOMAIN relational_map.users => req.elicitor = 0

\* The form identifiers of a request: none but mapped ones.
FormsDowngraded(req) ==
    \A q \in 1..Len(req.contents) :
        \E d \in DOMAIN relational_map.forms :
            relational_map.forms[d] = req.contents[q]

\* Every reference of the resource of the k-th request that has no entry in
\* the Relational Map is empty or left out in the request.
ReferencesDowngraded(k) ==
    LET req == requests[k]
    IN  CASE req.rtype = "forms" ->
                LET form == old_data.forms[req.src]
                IN  /\ TagsDowngraded(req, form.tags)
                    /\ SpeakerDowngraded(req, form.speaker)
                    /\ ElicitorDowngraded(req, form.elicitor)
                    /\ form.lingsync_datum_id \notin
                          DOMAIN relational_map.files => req.files = <<>>
          [] req.rtype = "collections" ->
                LET collection == old_data.collections[req.src]
                IN  /\ TagsDowngraded(req, collection.tags)
                    /\ SpeakerDowngraded(req, collection.speaker)
                    /\ ElicitorDowngraded(req, collection.elicitor)
                    /\ FormsDowngraded(req)
          [] req.rtype = "corpora" ->
                LET corpus == old_data.corpora[req.src]
                IN  /\ TagsDowngraded(req, corpus.tags)
                    /\ FormsDowngraded(req)
                    /\ Len(req.contents) =
                          Cardinality(ResolvedPositions(corpus.datum_ids,
                                                        relational_map.forms))
          [] OTHER -> TRUE

ForwardTypes == {"forms", "corpora", "collections"}

Issued(t, j) ==
    \E k \in RequestIndices :
        IsCreate(k) /\ requests[k].rtype = t /\ requests[k].src = j

\* How many resources of a forward-referencing type the run has gone past.
GonePast(t) ==
    CASE t = "forms" /\ pc \in {"forms_loop", "form_delete"} -> i - 1
      [] t = "forms" /\ pc \in {"corpora", "corpora_loop", "collections",
                                "collections_loop", "summary", "done"} ->
            Len(old_data.forms)
      [] t = "corpora" /\ pc = "corpora_loop" -> i - 1
      [] t = "corpora" /\ pc \in {"collections", "collections_loop",
                                  "summary", "done"} ->
            Len(old_data.corpora)
      [] t = "collections" /\ pc = "collections_loop" -> i - 1
      [] t = "collections" /\ pc \in {"summary", "done"} ->
            Len(old_data.collections)
      [] OTHER -> 0

\* C4: a reference of a form, collection or corpus without an entry in the
\* Relational Map is sent as empty (null speaker or elicitor, the tag or form
\* identifier left out, an empty file list) and the create is still issued
\* for every resource the run goes past; a run stops only on a failed
\* response, a failed precondition of the step or the missing migration tag,
\* and with the migration tag unmapped no form, corpus or collection create
\* is ever issued and no such loop is entered.
C4_UnresolvedReferencesDowngraded ==
    /\ \A k \in RequestIndices : IsCreate(k) => ReferencesDowngraded(k)
    /\ \A t \in ForwardTypes : \A j \in 1..GonePast(t) : Issued(t, j)
    /\ MigrationTagId = 0 =>
          /\ \A k \in RequestIndices : requests[k].rtype \notin ForwardTypes
          /\ pc \notin {"forms_loop", "form_delete", "corpora_loop",
                        "collections_loop"}
          /\ pc = "done" => \A t \in ForwardTypes : old_data[t] = <<>>
    /\ pc = "exited" =>
          \/ exit_reason \in {"login", "username", "migration tag",
                              "exception: r['id']",
                              "exception: date_entered"}
          \/ /\ requests # <<>>
             /\ requests[Len(requests)].resp \in {"noid", "error"}
    /\ exit_reason = "migration tag" => MigrationTagId = 0

\* A finished run in which a form was created with its staged speaker and
\* one of its staged tags unmapped, and a corpus with one of its datums
\* unmapped.
C4_Witness ==
    /\ pc = "done"
    /\ \E k \in RequestIndices :
          LET form == old_data.forms[requests[k].src]
          IN  /\ SuccessfulCreate(k) /\ requests[k].rtype = "forms"
              /\ form.speaker # NoSpeaker
              /\ form.speaker \notin DOMAIN relational_map.speakers
              /\ requests[k].speaker = 0
              /\ Len(requests[k].tags) < Len(form.tags) + 1
    /\ \E k \in RequestIndices :
          /\ SuccessfulCreate(k) /\ requests[k].rtype = "corpora"
          /\ Len(requests[k].contents)
                < Len(old_data.corpora[requests[k].src].datum_ids)

\* The run stopped before the first form because the migration tag is
\* unmapped, its create having succeeded.
C4_MigrationTagAbort ==
    /\ pc = "exited"
    /\ exit_reason = "migration tag"
    /\ old_data.forms # <<>>
    /\ \E k \in RequestIndices :
          SuccessfulCreate(k) /\ requests[k].rtype = "tags"
                              /\ requests[k].src = 0

KeyedTypes == {"users", "speakers", "tags"}

NaturalKey(t, resource) ==
    CASE t = "users" -> resource.username
      [] t = "speakers" -> SpeakerKey(resource)
      [] t = "tags" -> resource.name

\* The resources with the key that were on the destination before the run.
AlreadyOnDestination(t, key) ==
    {e \in Range(destination[t]) : e.id <= IdBase /\ NaturalKey(t, e) = key}

\* The step of a keyed type has finished and the run has moved on.
StepFinished(t) ==
    LET afterTags == {"files", "forms", "forms_loop", "form_delete",
                      "corpora", "corpora_loop", "collections",
                      "collections_loop", "summary", "done"}
        afterSpeakers == {"tags", "tags_create"} \cup afterTags
        afterUsers == {"speakers", "speakers_create", "speakers_update"}
                         \cup afterSpeakers
    IN  CASE t = "users" -> pc \in afterUsers
          [] t = "speakers" -> pc \in afterSpeakers
          [] t = "tags" -> pc \in afterTags

\* The operator's answer for a type; tags are never overwritten.
Overwrites(t) == IF t = "tags" THEN FALSE ELSE overwrites[t]

UpdateIssued(t, j) ==
    \E k \in RequestIndices :
        IsUpdate(k) /\ requests[k].rtype = t /\ requests[k].src = j

\* C5: for a staged user, speaker or tag whose natural key is that of a
\* resource already on the destination no create is issued; once the step of
\* its type has finished the Relational Map maps the key to the existing
\* identifier, and an update has been issued for it exactly when the
\* operator chose to overwrite.
C5_ExistingResourcesReused ==
    \A t \in KeyedTypes : \A j \in 1..Len(old_data[t]) :
        LET key == NaturalKey(t, old_data[t][j])
            existing == AlreadyOnDestination(t, key)
        IN  existing # {} =>
               /\ ~Issued(t, j)
               /\ StepFinished(t) =>
                     /\ key \in DOMAIN relational_map[t]
                     /\ \E e \in existing : relational_map[t][key] = e.id
                     /\ Overwrites(t) <=> UpdateIssued(t, j)

\* The staged forms of a session that resolve through the Relational Map.
ResolvingForms(session_id) ==
    {f \in Range(old_data.forms) :
        /\ f.lingsync_session_id = session_id
        /\ f.lingsync_datum_id \in DOMAIN relational_map.forms}

\* The source entry timestamp of the form created under an identifier.
EntryDate(id) ==
    (CHOOSE f \in Range(old_data.forms) :
        /\ f.lingsync_datum_id \in DOMAIN relational_map.forms
        /\ relational_map.forms[f.lingsync_datum_id] = id).date_entered

\* C6: the contents of a collection create list exactly the identifiers the
\* Relational Map gives the forms of the collection's session, each once, in
\* ascending order of the forms' source entry timestamps.
C6_ContentsByEntryDate ==
    \A k \in RequestIndices :
        (IsCreate(k) /\ requests[k].rtype = "collections") =>
            LET contents == requests[k].contents
                members == ResolvingForms(
                    old_data.collections[requests[k].src].lingsync_session_id)
            IN  /\ Len(contents) = Cardinality(members)
                /\ Range(contents) =
                      {relational_map.forms[f.lingsync_datum_id] : f \in members}
                /\ \A a, b \in 1..Len(contents) :
                      a < b => EntryDate(contents[a]) <= EntryDate(contents[b])

\* A collection was created whose three forms were entered in an order
\* that is neither the order of their identifiers nor its reverse.
C6_Witness ==
    \E k \in RequestIndices :
        /\ SuccessfulCreate(k) /\ requests[k].rtype = "collections"
        /\ Len(requests[k].contents) = 3
        /\ requests[k].contents[3] < requests[k].contents[1]
        /\ requests[k].contents[1] < requests[k].contents[2]
        /\ EntryDate(requests[k].contents[1]) < EntryDate(requests[k].contents[2])
        /\ EntryDate(requests[k].contents[2]) < EntryDate(requests[k].contents[3])

\* The k-th request created a form flagged source-deleted.
CreatedDeletedForm(k) == SuccessfulCreate(k) /\ SourceDeleted(k)

\* C7: every source-deleted form the run goes past is created, and the
\* request right after its create is a delete of exactly the identifier the
\* create returned; deletes are issued for nothing else; a failed delete is
\* the last request of a stopped run; no later corpus or collection create
\* lists the identifier.
C7_DeletedFormsReplayed ==
    /\ \A j \in 1..GonePast("forms") :
          old_data.forms[j].lingsync_deleted => Issued("forms", j)
    /\ \A k \in RequestIndices :
          CreatedDeletedForm(k) =>
             /\ IF k = Len(requests)
                THEN pc = "form_delete"
                ELSE /\ IsDelete(k + 1)
                     /\ requests[k + 1].rtype = "forms"
                     /\ requests[k + 1].id = requests[k].id
             /\ \A j \in RequestIndices :
                   (j > k /\ IsCreate(j)
                          /\ requests[j].rtype \in {"corpora", "collections"})
                      => \A q \in 1..Len(requests[j].contents) :
                            requests[j].contents[q] # requests[k].id
    /\ \A k \in RequestIndices :
          IsDelete(k) =>
             /\ k > 1 /\ CreatedDeletedForm(k - 1)
             /\ requests[k].resp = "noid" =>
                   k = Len(requests) /\ pc = "exited"

\* A finished run that created and deleted a source-deleted form, created
\* the next form after that, and then a corpus whose datalist names the
\* deleted datum and the collection of its session.
C7_Witness ==
    /\ pc = "done"
    /\ \E k \in RequestIndices :
          /\ CreatedDeletedForm(k)
          /\ k + 2 <= Len(requests)
          /\ IsCreate(k + 2) /\ requests[k + 2].rtype = "forms"
          /\ \E j \in RequestIndices :
                /\ SuccessfulCreate(j) /\ requests[j].rtype = "corpora"
                /\ old_data.forms[requests[k].src].lingsync_datum_id
                      \in Range(old_data.corpora[requests[j].src].datum_ids)
          /\ \E j \in RequestIndices :
                /\ SuccessfulCreate(j) /\ requests[j].rtype = "collections"
                /\ old_data.collections[requests[j].src].lingsync_session_id
                      = old_data.forms[requests[k].src].lingsync_session_id

\* A delete was answered without an identifier and the run has stopped.
C7_FailedDelete ==
    /\ pc = "exited"
    /\ requests # <<>>
    /\ IsDelete(Len(requests))
    /\ requests[Len(requests)].resp = "noid"

MapTypes == DOMAIN EmptyRelationalMap

\* s is an initial part of t.
IsPrefix(s, t) == Len(s) <= Len(t) /\ SubSeq(t, 1, Len(s)) = s

\* Every entry of the Relational Map is kept by the step: its key stays,
\* its identifier is the same, its list of file identifiers only longer.
EntriesKept ==
    \A t \in MapTypes : \A key \in DOMAIN relational_map[t] :
        /\ key \in DOMAIN relational_map'[t]
        /\ IF t = "files"
           THEN IsPrefix(relational_map[t][key], relational_map'[t][key])
           ELSE relational_map'[t][key] = relational_map[t][key]

\* C10: the Relational Map of a run starts empty and only grows: a mapped
\* key stays mapped, to the same identifier (for files, to a list that only
\* gets longer), and no entry is removed.
C10_MapOnlyGrows ==
    /\ relational_map = EmptyRelationalMap
    /\ [][EntriesKept]_vars

\* A finished run whose map holds two file identifiers under one datum, two
\* tags, a user, a speaker, a form, a corpus and a collection.
C10_Witness ==
    /\ pc = "done"
    /\ \E d \in DOMAIN relational_map.files : Len(relational_map.files[d]) = 2
    /\ Cardinality(DOMAIN relational_map.tags) >= 2
    /\ \A t \in MapTypes : DOMAIN relational_map[t] # {}

----------------------------------------------------------------------------
(* The Staging Store fold (update_state) and consolidate_resources.         *)
(* A field value is the sequence of its characters, u'' is <<>>.            *)

MaxStaged == 3

FieldValues == {<<>>, <<"A">>, <<"B">>}
ConvUsernames == {<<"B">>, <<"C">>}

\* The user payloads the mappers emit: a user document gives its own first
\* name and affiliation, an enteredByUser string gives first_name = username.
ConvUser(u, f, a) == [username |-> u, first_name |-> f, affiliation |-> a]

Payloads(kind) ==
    CASE kind = "users" ->
            {ConvUser(u, f, a) :
                u \in ConvUsernames, f \in FieldValues, a \in FieldValues}
      [] kind = "speakers" ->
            {Speaker(n, d) : n \in SpeakerNames, d \in FieldValues}
      [] kind = "tags" -> {Tag(n) : n \in TagNames}

ConsolidatedKinds == {"users", "speakers", "tags"}

\* The fields that identify a resource, and the other ones.
KeyFields(kind) ==
    CASE kind = "users" -> {"username"}
      [] kind = "speakers" -> {"first_name", "last_name"}
      [] kind = "tags" -> {"name"}

KeyOf(kind, resource) == [f \in KeyFields(kind) |-> resource[f]]

Staged == Len(staging.users) + Len(staging.speakers) + Len(staging.tags)

\* The general warning a mapper hands to update_state.
MapperWarning == [kind |-> "mapper"]

\* update_state, lines 1028-1029 and 1035-1036: a resource is appended
\* unless an equal one is in the list.
AppendUnlessThereMutant(existing, resource) == Append(existing, resource)
AppendUnlessThere(existing, resource) ==
    IF resource \in Range(existing) THEN existing
    ELSE Append(existing, resource)

\* update_state, lines 1033-1036 and 1047-1050: one resource of a Conversion
\* Result is appended unless an equal one is there; general warnings create
\* warnings['general'] when it is missing.
UpdateState ==
    /\ cpc = "folding"
    /\ Staged < MaxStaged
    /\ \E kind \in ConsolidatedKinds :
          \E resource \in Payloads(kind), general \in BOOLEAN :
             /\ staging' = [staging EXCEPT ![kind] =
                               AppendUnlessThere(@, resource)]
             /\ warnings' =
                   IF general
                   THEN [defined |-> TRUE,
                         general |-> warnings.general \cup {MapperWarning}]
                   ELSE warnings
    /\ UNCHANGED cpc
    /\ UNCHANGED <<uploadVars, mainVars>>
    /\ UNCHANGED mapVars

\* CPython 2 keeps a small set in a table of 8 slots and iterates it by
\* slot; a one-character string with code point n lands in slot
\* (n mod 8) xor 1.
Ord(c) == CASE c = "A" -> 65 [] c = "B" -> 66 [] c = "C" -> 67
HashSlot(v) ==
    LET x == Ord(v[1]) % 8
    IN  IF x % 2 = 0 THEN x + 1 ELSE x - 1

\* list(set(values)), lines 775 and 801.
RECURSIVE ListOfSet(_)
ListOfSet(S) ==
    IF S = {} THEN <<>>
    ELSE LET first == CHOOSE v \in S : \A w \in S : HashSlot(v) <= HashSlot(w)
         IN  <<first>> \o ListOfSet(S \ {first})

\* vals = list(set([u[attr] for u in duplicates if u[attr]]))
Vals(duplicates, attr) ==
    ListOfSet({duplicates[k][attr] : k \in 1..Len(duplicates)} \ {<<>>})

\* new_val = vals[0], or u'' when vals is empty.
NewVal(duplicates, attr) ==
    IF Vals(duplicates, attr) = <<>> THEN <<>> ELSE Vals(duplicates, attr)[1]

\* The "Lost data when consolidating" warning of one attribute.
LostData(kind, duplicates, attr) ==
    [kind |-> kind, attr |-> attr, chosen |-> NewVal(duplicates, attr),
     discarded |-> Tail(Vals(duplicates, attr))]

LostDataWarnings(kind, duplicates, attrs) ==
    {LostData(kind, duplicates, attr) :
        attr \in {a \in attrs : Len(Vals(duplicates, a)) > 1}}

\* consolidate_users, lines 765-786.
consolidate_users(duplicates) ==
    [resource |->
        [username |-> duplicates[1].username,
         first_name |-> NewVal(duplicates, "first_name"),
         affiliation |-> NewVal(duplicates, "affiliation")],
     warnings |->
        LostDataWarnings("users", duplicates, {"first_name", "affiliation"})]

\* consolidate_speakers, lines 789-813.
consolidate_speakers(duplicates) ==
    [resource |->
        [first_name |-> duplicates[1].first_name,
         last_name |-> duplicates[1].last_name,
         dialect |-> NewVal(duplicates, "dialect"),
         page_content |-> NewVal(duplicates, "page_content")],
     warnings |->
        LostDataWarnings("speakers", duplicates, {"dialect", "page_content"})]

\* u'\n\n'.join(descriptions), the separator written "/".
RECURSIVE Join(_)
Join(descriptions) ==
    IF descriptions = <<>> THEN <<>>
    ELSE IF Len(descriptions) = 1 THEN descriptions[1]
    ELSE descriptions[1] \o <<"/">> \o Join(Tail(descriptions))

\* Lines 884-896: the first tag is kept as it is; a warning tells of the
\* other descriptions.
consolidate_tags(duplicates) ==
    LET tag == duplicates[1]
        described(t) == t.description # <<>>
        descriptions == SelectSeq(duplicates, described)
        new_description ==
            Join([k \in 1..Len(descriptions) |-> descriptions[k].description])
    IN  [resource |-> tag,
         warnings |->
            IF new_description # tag.description
            THEN {[kind |-> "tags", attr |-> "description",
                   chosen |-> tag.description,
                   discarded |-> <<new_description>>]}
            ELSE {}]

Consolidate(kind, duplicates) ==
    CASE kind = "users" -> consolidate_users(duplicates)
      [] kind = "speakers" -> consolidate_speakers(duplicates)
      [] kind = "tags" -> consolidate_tags(duplicates)

\* [u for u in resources if <same natural key as resource>]
DuplicatesMutant(kind, resources, resource) == <<resource>>
Duplicates(kind, resources, resource) ==
    LET same(u) == KeyOf(kind, u) = KeyOf(kind, resource)
    IN  SelectSeq(resources, same)

\* The loop over one resource list, lines 829-840 (856-867, 880-898).
RECURSIVE ConsolidateLoop(_, _, _, _)
ConsolidateLoop(kind, resources, k, acc) ==
    IF k > Len(resources)
    THEN acc
    ELSE LET resource == resources[k]
             duplicates == Duplicates(kind, resources, resource)
             merged == Consolidate(kind, duplicates)
         IN  IF resource \in acc.processed
             THEN ConsolidateLoop(kind, resources, k + 1, acc)
             ELSE ConsolidateLoop(kind, resources, k + 1,
                     [processed |-> acc.processed \cup Range(duplicates),
                      consolidated |->
                         Append(acc.consolidated,
                                IF Len(duplicates) > 1 THEN merged.resource
                                ELSE resource),
                      warnings |->
                         IF Len(duplicates) > 1
                         THEN acc.warnings \cup merged.warnings
                         ELSE acc.warnings])

\* if len(old_data.get(kind, [])) > 1: ... old_data[kind] = consolidated
ConsolidateKind(kind, resources) ==
    IF Len(resources) > 1
    THEN ConsolidateLoop(kind, resources, 1,
            [processed |-> {}, consolidated |-> <<>>, warnings |-> {}])
    ELSE [processed |-> {}, consolidated |-> resources, warnings |-> {}]

\* consolidate_resources, lines 816-903.  warnings['general'].add raises
\* KeyError when no Conversion Result brought a general warning: the
\* process dies and the store in memory is lost.
ConsolidateResources ==
    /\ cpc = "folding"
    /\ LET users == ConsolidateKind("users", staging.users)
           speakers == ConsolidateKind("speakers", staging.speakers)
           tags == ConsolidateKind("tags", staging.tags)
           added == users.warnings \cup speakers.warnings \cup tags.warnings
       IN  IF added # {} /\ ~warnings.defined
           THEN /\ cpc' = "crashed"
                /\ UNCHANGED <<staging, warnings>>
           ELSE /\ cpc' = "consolidated"
                /\ staging' = [users |-> users.consolidated,
                               speakers |-> speakers.consolidated,
                               tags |-> tags.consolidated]
                /\ warnings' = [warnings EXCEPT !.general = @ \cup added]
    /\ UNCHANGED <<uploadVars, mainVars>>
    /\ UNCHANGED mapVars

\* The conversion of a document set begins: nothing staged, no warnings.
InitCons ==
    /\ UploadStart(Scenario(BaseStore, BaseDestination))
    /\ staging = EmptyStaging
    /\ warnings = NoWarnings
    /\ cpc = "folding"
    /\ IdleMain
    /\ IdleMap

NextCons ==
    \/ UpdateState
    \/ ConsolidateResources

SpecCons == InitCons /\ [][NextCons]_vars

----------------------------------------------------------------------------
(* Properties of the consolidation.                                         *)

\* consolidate_resources returns: the step from the folded store to the
\* consolidated one.
ConsolidationStep == cpc = "folding" /\ cpc' = "consolidated"

NonKeyFields(kind) ==
    CASE kind = "users" -> {"first_name", "affiliation"}
      [] kind = "speakers" -> {"dialect", "page_content"}
      [] kind = "tags" -> {"description"}

\* The resources of a list with the natural key of a resource, in arrival
\* order.
SharingKey(kind, resources, resource) ==
    LET shares(u) == \A f \in KeyFields(kind) : u[f] = resource[f]
    IN  SelectSeq(resources, shares)

\* The first non-empty value of a field in a list of resources, u'' if none.
FirstNonEmpty(resources, attr) ==
    IF \A k \in 1..Len(resources) : resources[k][attr] = <<>>
    THEN <<>>
    ELSE resources[CHOOSE k \in 1..Len(resources) :
                      /\ resources[k][attr] # <<>>
                      /\ \A j \in 1..(k - 1) : resources[j][attr] = <<>>][attr]

\* A general warning names the value of the field as discarded.
ReportedDiscarded(general, kind, attr, v) ==
    \E w \in general :
        /\ w.kind = kind
        /\ w.attr = attr
        /\ \E q \in 1..Len(w.discarded) : w.discarded[q] = v

\* C8: when several staged users or speakers share a natural key, every
\* other field of the consolidated resource is the first non-empty value of
\* the field among them in arrival order, and a general warning names every
\* other distinct non-empty value as discarded.
C8_FirstValueWins ==
    [][ConsolidationStep =>
        \A kind \in {"users", "speakers"} :
            \A resource \in Range(staging[kind]) :
                LET duplicates == SharingKey(kind, staging[kind], resource)
                IN  Len(duplicates) > 1 =>
                       \E c \in Range(staging'[kind]) :
                          /\ \A f \in KeyFields(kind) : c[f] = resource[f]
                          /\ \A attr \in NonKeyFields(kind) :
                                /\ c[attr] = FirstNonEmpty(duplicates, attr)
                                /\ \A v \in {duplicates[k][attr] :
                                              k \in 1..Len(duplicates)}
                                            \ {<<>>, c[attr]} :
                                      ReportedDiscarded(warnings'.general,
                                                        kind, attr, v)]_vars

\* The positions of a list at which a natural key occurs for the first time.
FirstOccurrences(kind, resources) ==
    {k \in 1..Len(resources) :
        \A j \in 1..(k - 1) :
            \E f \in KeyFields(kind) : resources[j][f] # resources[k][f]}

\* The n-th smallest member of a set of positions.
NthOf(positions, n) ==
    CHOOSE k \in positions : Cardinality({j \in positions : j < k}) = n - 1

\* C9: consolidation leaves one entry per natural key in the users, speakers
\* and tags lists, the keys being those present before, in the order of
\* their first occurrence, and a resource whose key occurred once is passed
\* through unchanged at that place.
C9_OneEntryPerKey ==
    [][ConsolidationStep =>
        \A kind \in ConsolidatedKinds :
            LET before == staging[kind]
                after == staging'[kind]
                firsts == FirstOccurrences(kind, before)
            IN  /\ Len(after) = Cardinality(firsts)
                /\ \A n \in 1..Len(after) :
                      LET first == before[NthOf(firsts, n)]
                      IN  /\ \A f \in KeyFields(kind) : after[n][f] = first[f]
                          /\ Len(SharingKey(kind, before, first)) = 1
                                => after[n] = first
                /\ \A m, n \in 1..Len(after) :
                      m # n => \E f \in KeyFields(kind) :
                                  after[m][f] # after[n][f]]_vars

\* Three staged users were consolidated into two: the two that shared the
\* first username merged with a loss of data, the other passed through.
C9_Witness ==
    /\ cpc = "consolidated"
    /\ Len(staging.users) = 2
    /\ staging.users[1].username # staging.users[2].username
    /\ \E w \in warnings.general : w.kind = "users"

----------------------------------------------------------------------------
(* Further properties of the upload.                                        *)

\* The k-th request is the create of the run's migration tag.
MigrationTagCreate(k) ==
    IsCreate(k) /\ requests[k].rtype = "tags" /\ requests[k].src = 0

TaggedTypes ==
    {"users", "speakers", "files", "forms", "corpora", "collections"}

\* C11: a run creates one migration tag and no more, and every user,
\* speaker, file, form, corpus and collection it creates carries the
\* identifier of that tag among its tags.
C11_MigrationTagOnEveryResource ==
    /\ \A j, k \in RequestIndices :
          (MigrationTagCreate(j) /\ MigrationTagCreate(k)) => j = k
    /\ pc = "done" => \E k \in RequestIndices : MigrationTagCreate(k)
    /\ pc = "done" =>
          \A k \in RequestIndices :
              (SuccessfulCreate(k) /\ requests[k].rtype \in TaggedTypes) =>
                  \E j \in RequestIndices :
                      /\ MigrationTagCreate(j)
                      /\ requests[j].id # 0
                      /\ \E q \in 1..Len(requests[k].tags) :
                            requests[k].tags[q] = requests[j].id

\* The user update request the step appends, if it appends one.
UserUpdateSent ==
    /\ Len(requests') = Len(requests) + 1
    /\ requests'[Len(requests')].op = "update"
    /\ requests'[Len(requests')].rtype = "users"

\* The destination's copy of the user a request addresses, before the
\* request.
Addressed(req) ==
    CHOOSE u \in Range(destination.users) : u.id = req.id

\* C12: an overwrite update of an existing user carries empty password
\* fields, the existing email when the staged email is the placeholder, the
\* staged affiliation and page content when they are non-empty and the
\* existing ones when the staged ones are empty.
C12_OverwriteMerge ==
    [][UserUpdateSent =>
        LET req == requests'[Len(requests')]
            user == old_data.users[req.src]
            existing == Addressed(req)
            sent == req.payload
        IN  /\ sent.password = ""
            /\ sent.password_confirm = ""
            /\ user.email = FAKE_EMAIL => sent.email = existing.email
            /\ sent.affiliation =
                  IF user.affiliation # "" THEN user.affiliation
                  ELSE existing.affiliation
            /\ sent.page_content =
                  IF user.page_content # "" THEN user.page_content
                  ELSE existing.page_content]_vars

\* An update was sent for a staged user with the placeholder email, an
\* affiliation and no page content, whose counterpart had page content.
C12_Witness ==
    \E k \in RequestIndices :
        /\ IsUpdate(k)
        /\ requests[k].rtype = "users"
        /\ old_data.users[requests[k].src].email = FAKE_EMAIL
        /\ old_data.users[requests[k].src].affiliation = "MIT"
        /\ old_data.users[requests[k].src].page_content = ""
        /\ requests[k].payload.affiliation = "MIT"
        /\ requests[k].payload.email = "old@old.org"
        /\ requests[k].payload.page_content = "About."
        /\ requests[k].payload.password = ""

----------------------------------------------------------------------------
(* main, lines 2277-2286: download, convert, upload.  SpecMain follows the *)
(* script from its start to the first request of upload; a later run of    *)
(* the script finds the files the earlier run left on disk.                *)

MaxRuns == 2
MaxRows == 3

\* BIG_FILE_SIZE, line 163, and BIG_DATA, line 167.
BIG_FILE_SIZE == 20000000
BIG_DATA == 200000000

\* An entry of the history.
Event(ev, arg) == [run |-> run, ev |-> ev, arg |-> arg]

\* A row of the source: the attributes of the document the conversion
\* depends on.  fields: a non-empty sessionFields or fields list; general:
\* the mapper hands a general warning to update_state; files: the file
\* payloads a datum brings (old_auxiliary_resources); users: the user
\* payload a user document brings.
Doc(id, collection) ==
    [id |-> id, collection |-> collection, fields |-> TRUE,
     trashed |-> FALSE, language |-> "", general |-> FALSE, files |-> <<>>,
     users |-> <<>>]

\* A file payload of process_lingsync_datum, lines 1536-1545: size is
\* __lingsync_file_size (0: none), url whether URL and file name are there.
MediaFile(d, size, url) ==
    [lingsync_datum_id |-> d, size |-> size, url |-> url,
     local_file_path |-> FALSE]

GoodSession == [Doc(1, "sessions") EXCEPT !.language = "Blackfoot"]
OtherSession == [Doc(2, "sessions") EXCEPT !.language = "Cree"]
BareSession == [Doc(3, "sessions") EXCEPT !.fields = FALSE]
TrashedSession == [Doc(4, "sessions") EXCEPT !.trashed = TRUE]
PlainDatum == Doc(5, "datums")
WarnedDatum == [Doc(6, "datums") EXCEPT !.general = TRUE]
UserDoc ==
    [Doc(7, "users") EXCEPT !.users = <<ConvUser(<<"B">>, <<"A">>, <<>>)>>]
FakeEmailUserDoc ==
    [Doc(8, "users") EXCEPT !.users = <<ConvUser(<<"B">>, <<"B">>, <<>>)>>,
                            !.general = TRUE]
DatalistDoc == Doc(9, "datalists")

Docs ==
    {GoodSession, OtherSession, BareSession, TrashedSession, PlainDatum,
     WarnedDatum, UserDoc, FakeEmailUserDoc, DatalistDoc}

\* Document identifiers are unique.
DocSets ==
    {s \in SeqsUpTo(Docs, MaxRows) : NoRepeat([k \in DOMAIN s |-> s[k].id])}

FileSizes == {0, 1000, BIG_FILE_SIZE + 1, BIG_DATA + 1}

MediaFiles == {MediaFile(d, size, url) :
                  d \in 1..2, size \in FileSizes, url \in BOOLEAN}

MediaLists ==
    {s \in SeqsUpTo(MediaFiles, 2) :
        NoRepeat([k \in DOMAIN s |-> s[k].lingsync_datum_id])}

BaseRows == <<GoodSession, PlainDatum>>

\* A raw-documents file and a Staging Store file left by an earlier run.
EarlierFile == [exists |-> TRUE, has_rows |-> TRUE, rows |-> <<GoodSession>>]
EarlierStore ==
    [exists |-> TRUE, files |-> <<MediaFile(1, 1000, TRUE)>>]

\* The answers of the source store to get_all_docs_list.
FetchAnswers == {"rows", "unauthorized", "error"}

\* download, lines 2434-2446: whether download_lingsync_json is called.
MustDownloadMutant(opts, file) == TRUE
MustDownload(opts, file) == opts.force_download \/ ~file.exists

\* A flag in the history: 1 when set.
Flag(b) == IF b THEN 1 ELSE 0

\* The requests to the source in the history: login_couchdb with 1 when
\* the answer has ok, get_all_docs_list with 1 when the answer is not the
\* error 'unauthorized'.
LoginSent(login_ok) == Event("login_couchdb", Flag(login_ok))
FetchSent(all_docs) ==
    Event("get_all_docs_list", Flag(all_docs # "unauthorized"))

\* download_lingsync_json, lines 191-224: the requests it sends, and the
\* file it writes unless it returns None.
DownloadLingsyncJsonMutant(login_ok, all_docs) ==
    [sent |-> <<LoginSent(login_ok), FetchSent(all_docs),
                Event("write_lingsync_json", 0)>>,
     fname |-> TRUE,
     file |-> [exists |-> TRUE, has_rows |-> all_docs = "rows",
               rows |-> IF all_docs = "rows" THEN source ELSE <<>>]]
DownloadLingsyncJson(login_ok, all_docs) ==
    IF ~login_ok
    THEN [sent |-> <<LoginSent(login_ok)>>, fname |-> FALSE,
          file |-> lingsync_json]
    ELSE IF all_docs = "unauthorized"
    THEN [sent |-> <<LoginSent(login_ok), FetchSent(all_docs)>>,
          fname |-> FALSE, file |-> lingsync_json]
    ELSE [sent |-> <<LoginSent(login_ok), FetchSent(all_docs),
                     Event("write_lingsync_json", 0)>>,
          fname |-> TRUE,
          file |-> [exists |-> TRUE, has_rows |-> all_docs = "rows",
                    rows |-> IF all_docs = "rows" THEN source ELSE <<>>]]

\* download, lines 2426-2450.
Download ==
    /\ mpc = "download"
    /\ LET step == Event("download", Flag(options.force_download))
       IN  IF MustDownload(options, lingsync_json)
           THEN \E login_ok \in BOOLEAN, all_docs \in FetchAnswers :
                  LET res == DownloadLingsyncJson(login_ok, all_docs)
                  IN  /\ log' = Append(log, step) \o res.sent
                      /\ lingsync_json' = res.file
                      /\ mpc' = IF res.fname THEN "convert" ELSE "exited"
           ELSE /\ mpc' = "convert"
                /\ log' = Append(log, step)
                /\ UNCHANGED lingsync_json
    /\ UNCHANGED <<options, source, old_json, local_files, run, memoryVars>>
    /\ UNCHANGED <<uploadVars, convVars>>
    /\ UNCHANGED mapVars

\* convert, lines 2461-2487: whether lingsync2old is called.
MustConvertMutant(opts, store) == TRUE
MustConvert(opts, store) == opts.force_convert \/ ~store.exists

\* convert, lines 2453-2491, up to the loops of lingsync2old (lines
\* 483-500): the rows are loaded, or the run exits when there are none.
Convert ==
    /\ mpc = "convert"
    /\ log' = Append(log, Event("convert", Flag(options.force_convert)))
    /\ IF MustConvert(options, old_json)
       THEN IF lingsync_json.has_rows
            THEN /\ mpc' = "converting"
                 /\ cpc' = "sessions"
                 /\ rows' = lingsync_json.rows
            ELSE /\ mpc' = "exited"
                 /\ UNCHANGED <<cpc, rows>>
       ELSE /\ mpc' = "upload"
            /\ UNCHANGED <<cpc, rows>>
    /\ UNCHANGED <<row, old_keys, old_files, languages, downloaded_files>>
    /\ UNCHANGED <<options, source, diskVars, run>>
    /\ UNCHANGED <<uploadVars, staging, warnings>>
    /\ UNCHANGED mapVars

----------------------------------------------------------------------------
(* lingsync2old, lines 474-580.                                             *)

\* The four loops over rows, lines 520-554.
Passes == <<"sessions", "datums", "users", "datalists">>

\* The first row at or after position k that the loop of a collection
\* handles; 0 when there is none.
NextRow(collection, k) ==
    IF \E j \in k..Len(rows) : rows[j].collection = collection
    THEN CHOOSE j \in k..Len(rows) :
            /\ rows[j].collection = collection
            /\ \A h \in k..(j - 1) : rows[h].collection # collection
    ELSE 0

\* update_state, lines 1039-1050: the warnings of one Conversion Result.
FoldedWarnings(doc) ==
    IF doc.general
    THEN [defined |-> TRUE, general |-> warnings.general \cup {MapperWarning}]
    ELSE warnings

\* update_state, lines 1031-1036: for resource in rlist: append unless there.
RECURSIVE AppendNew(_, _)
AppendNew(existing, rlist) ==
    IF rlist = <<>> THEN existing
    ELSE AppendNew(AppendUnlessThere(existing, rlist[1]), Tail(rlist))

\* An exception nobody catches: the process dies.
Crash == cpc' = "crashed"

\* process_lingsync_session, lines 1942-1954: None for a session without
\* field list and for a trashed one.
SessionIsMappedMutant(doc) == doc.fields
SessionIsMapped(doc) == doc.fields /\ ~doc.trashed

\* Lines 520-528: one session document.
ProcessSession ==
    /\ mpc = "converting"
    /\ cpc = "sessions"
    /\ NextRow("sessions", row) # 0
    /\ LET k == NextRow("sessions", row)
           doc == rows[k]
       IN  /\ row' = k + 1
           /\ IF SessionIsMapped(doc)
              THEN /\ old_keys' = old_keys \cup {"collections"}
                   /\ warnings' = FoldedWarnings(doc)
                   /\ languages' = IF doc.language # ""
                                   THEN languages \cup {doc.language}
                                   ELSE languages
                   /\ log' = Append(log, Event("update_state", doc.id))
              ELSE UNCHANGED <<old_keys, warnings, languages, log>>
    /\ UNCHANGED <<cpc, staging, rows, old_files, downloaded_files>>
    /\ UNCHANGED <<options, source, diskVars, mpc, run>>
    /\ UNCHANGED uploadVars
    /\ UNCHANGED mapVars

\* Lines 531-535: one datum document.  old_data['collections'] raises
\* KeyError when no session was folded.
ProcessDatum ==
    /\ mpc = "converting"
    /\ cpc = "datums"
    /\ NextRow("datums", row) # 0
    /\ LET k == NextRow("datums", row)
           doc == rows[k]
       IN  IF "collections" \in old_keys
           THEN /\ row' = k + 1
                /\ old_keys' = old_keys \cup {"forms"}
                /\ old_files' = AppendNew(old_files, doc.files)
                /\ warnings' = FoldedWarnings(doc)
                /\ log' = Append(log, Event("update_state", doc.id))
                /\ UNCHANGED cpc
           ELSE /\ Crash
                /\ UNCHANGED <<row, old_keys, old_files, warnings, log>>
    /\ UNCHANGED <<staging, rows, languages, downloaded_files>>
    /\ UNCHANGED <<options, source, diskVars, mpc, run>>
    /\ UNCHANGED uploadVars
    /\ UNCHANGED mapVars

\* Lines 545-548: one user document.
ProcessUser ==
    /\ mpc = "converting"
    /\ cpc = "users"
    /\ NextRow("users", row) # 0
    /\ LET k == NextRow("users", row)
           doc == rows[k]
       IN  /\ row' = k + 1
           /\ staging' = [staging EXCEPT !.users = AppendNew(@, doc.users)]
           /\ warnings' = FoldedWarnings(doc)
           /\ log' = Append(log, Event("update_state", doc.id))
    /\ UNCHANGED <<cpc, rows, old_keys, old_files, languages,
                   downloaded_files>>
    /\ UNCHANGED <<options, source, diskVars, mpc, run>>
    /\ UNCHANGED uploadVars
    /\ UNCHANGED mapVars

\* Lines 551-554: one datalist document.
ProcessDatalist ==
    /\ mpc = "converting"
    /\ cpc = "datalists"
    /\ NextRow("datalists", row) # 0
    /\ LET k == NextRow("datalists", row)
           doc == rows[k]
       IN  /\ row' = k + 1
           /\ old_keys' = old_keys \cup {"corpora"}
           /\ warnings' = FoldedWarnings(doc)
           /\ log' = Append(log, Event("update_state", doc.id))
    /\ UNCHANGED <<cpc, staging, rows, old_files, languages,
                   downloaded_files>>
    /\ UNCHANGED <<options, source, diskVars, mpc, run>>
    /\ UNCHANGED uploadVars
    /\ UNCHANGED mapVars

\* A loop over rows ends; after the last one, line 557, comes
\* consolidate_resources.
EndOfPass ==
    /\ mpc = "converting"
    /\ \E k \in 1..Len(Passes) :
          /\ cpc = Passes[k]
          /\ NextRow(cpc, row) = 0
          /\ cpc' = IF k < Len(Passes) THEN Passes[k + 1] ELSE "folding"
    /\ row' = 1
    /\ UNCHANGED <<staging, warnings, rows, old_keys, old_files, languages,
                   downloaded_files>>
    /\ UNCHANGED <<options, source, diskVars, log, mpc, run>>
    /\ UNCHANGED uploadVars
    /\ UNCHANGED mapVars

\* get_old_application_settings, lines 739-762.  warnings['general'].add
\* raises KeyError when warnings has no 'general'; iterating
\* old_data.get('forms') raises TypeError when no form was staged.
GetOldApplicationSettings ==
    /\ mpc = "converting"
    /\ cpc = "consolidated"
    /\ IF Cardinality(languages) > 1 /\ ~warnings.defined
       THEN Crash /\ UNCHANGED <<warnings, old_keys>>
       ELSE IF "forms" \notin old_keys
       THEN Crash /\ UNCHANGED <<warnings, old_keys>>
       ELSE /\ cpc' = "media"
            /\ old_keys' = old_keys \cup {"applicationsettings"}
            /\ warnings' =
                  IF Cardinality(languages) > 1
                  THEN [warnings EXCEPT !.general =
                           @ \cup {[kind |-> "languages"]}]
                  ELSE warnings
    /\ UNCHANGED <<staging, rows, row, old_files, languages,
                   downloaded_files>>
    /\ UNCHANGED <<options, source, diskVars, log, mpc, run>>
    /\ UNCHANGED uploadVars
    /\ UNCHANGED mapVars

----------------------------------------------------------------------------
(* download_lingsync_media_files, lines 630-704.                            *)

\* filter(None, [f.get('__lingsync_file_size') for f in files])
RECURSIVE Sum(_)
Sum(sizes) == IF sizes = <<>> THEN 0 ELSE sizes[1] + Sum(Tail(sizes))

FileSizesOf(files) == [k \in DOMAIN files |-> files[k].size]

\* Lines 645-648.
WeHaveBigFiles(files) == \E k \in DOMAIN files : files[k].size > BIG_FILE_SIZE
WeHaveBigData(files) == Sum(FileSizesOf(files)) > BIG_DATA

\* Line 649: whether the operator is asked before anything is downloaded.
MustAskMutant(files) == FALSE
MustAsk(files) == WeHaveBigFiles(files) \/ WeHaveBigData(files)

\* warnings['general'].add(warning): KeyError when warnings has no
\* 'general'.
AddGeneral(warning) ==
    IF warnings.defined
    THEN warnings' = [warnings EXCEPT !.general = @ \cup {warning}]
    ELSE Crash /\ UNCHANGED warnings

\* Lines 637-675: the thresholds and the question to the operator, whose
\* answer the history keeps (1 for 'y').
CheckFileSizes ==
    /\ mpc = "converting"
    /\ cpc = "media"
    /\ IF old_files = <<>>
       THEN /\ cpc' = "write"
            /\ UNCHANGED <<warnings, old_files, log>>
       ELSE IF MustAsk(old_files)
       THEN \E response \in BOOLEAN :
              /\ log' = Append(log, Event("raw_input", Flag(response)))
              /\ IF response
                 THEN /\ cpc' = "media_loop"
                      /\ UNCHANGED <<warnings, old_files>>
                 ELSE /\ AddGeneral([kind |-> "lots of file data"])
                      /\ IF warnings.defined
                         THEN cpc' = "write" /\ old_files' = <<>>
                         ELSE UNCHANGED old_files
       ELSE /\ cpc' = "media_loop"
            /\ UNCHANGED <<warnings, old_files, log>>
    /\ row' = 1
    /\ downloaded_files' = <<>>
    /\ UNCHANGED <<staging, rows, old_keys, languages>>
    /\ UNCHANGED <<options, source, diskVars, mpc, run>>
    /\ UNCHANGED uploadVars
    /\ UNCHANGED mapVars

\* What requests.get and the write to disk come to: the response is ok and
\* written, the response is not ok, or an exception is raised (no
\* connection, disk full).
DownloadOutcomes == {"ok", "not_ok", "raises"}

\* download_lingsync_file, line 712: nothing is fetched for a file that is
\* on disk, unless force_file_download.
IsOnDisk(file) ==
    file.lingsync_datum_id \in local_files /\ ~options.force_file_download

\* Lines 677-702 and download_lingsync_file, lines 707-736: one file of the
\* loop.  open(filepath, 'wb') leaves a file on disk whatever follows.  The
\* history tells a download that did not come to a written file.
DownloadFile ==
    /\ mpc = "converting"
    /\ cpc = "media_loop"
    /\ row <= Len(old_files)
    /\ LET file == old_files[row]
           kept == Append(downloaded_files,
                          [file EXCEPT !.local_file_path = TRUE])
       IN  IF ~file.url
           THEN /\ AddGeneral([kind |-> "not retrievable",
                               datum |-> file.lingsync_datum_id])
                /\ IF warnings.defined THEN UNCHANGED cpc ELSE TRUE
                /\ UNCHANGED <<downloaded_files, local_files, log>>
           ELSE IF IsOnDisk(file)
           THEN /\ downloaded_files' = kept
                /\ UNCHANGED <<cpc, warnings, local_files, log>>
           ELSE \E outcome \in DownloadOutcomes :
                  /\ local_files' = local_files \cup {file.lingsync_datum_id}
                  /\ log' = Append(log, Event("requests_get",
                                              file.lingsync_datum_id)) \o
                            IF outcome = "ok" THEN <<>>
                            ELSE <<Event("download_failed",
                                         file.lingsync_datum_id)>>
                  /\ CASE outcome = "ok" ->
                            /\ downloaded_files' = kept
                            /\ UNCHANGED <<cpc, warnings>>
                       [] outcome = "not_ok" ->
                            /\ AddGeneral([kind |-> "download failed",
                                           datum |-> file.lingsync_datum_id])
                            /\ IF warnings.defined THEN UNCHANGED cpc ELSE TRUE
                            /\ UNCHANGED downloaded_files
                       [] outcome = "raises" ->
                            /\ Crash
                            /\ UNCHANGED <<downloaded_files, warnings>>
    /\ row' = row + 1
    /\ UNCHANGED <<staging, rows, old_keys, old_files, languages>>
    /\ UNCHANGED <<options, source, lingsync_json, old_json, mpc, run>>
    /\ UNCHANGED uploadVars
    /\ UNCHANGED mapVars

\* Line 703: old_data['files'] = downloaded_files.
EndOfFiles ==
    /\ mpc = "converting"
    /\ cpc = "media_loop"
    /\ row > Len(old_files)
    /\ old_files' = downloaded_files
    /\ cpc' = "write"
    /\ UNCHANGED <<staging, warnings, rows, row, old_keys, languages,
                   downloaded_files>>
    /\ UNCHANGED <<options, source, diskVars, log, mpc, run>>
    /\ UNCHANGED uploadVars
    /\ UNCHANGED mapVars

\* lingsync2old, lines 568-580: print_summary and write_old_data_to_disk
\* (lines 915-924); convert returns the file name.
WriteOldDataToDisk ==
    /\ mpc = "converting"
    /\ cpc = "write"
    /\ old_json' = [exists |-> TRUE, files |-> old_files]
    /\ log' = Append(log, Event("write_old_data", 0))
    /\ cpc' = "idle"
    /\ mpc' = "upload"
    /\ UNCHANGED <<staging, warnings, memoryVars>>
    /\ UNCHANGED <<options, source, lingsync_json, local_files, run>>
    /\ UNCHANGED uploadVars
    /\ UNCHANGED mapVars

\* upload, lines 2545-2557: the Staging Store file is loaded.
Upload ==
    /\ mpc = "upload"
    /\ pc = "waiting"
    /\ pc' = "login"
    /\ UNCHANGED <<old_data, destination, i, relational_map, requests, next_id,
                   migration_tag_name, to_create, to_update, r, exit_reason,
                   overwrites>>
    /\ UNCHANGED <<convVars, mainVars>>
    /\ UNCHANGED mapVars

\* main, line 2286, and cleanup, lines 2298-2311, once upload has
\* returned: the directories are destroyed unless the operator says to
\* save them.  SpecMain follows upload to its first request; the rest of
\* it is Spec.
Cleanup ==
    /\ mpc = "upload"
    /\ pc = AfterType("applicationsettings")
    /\ mpc' = "done"
    /\ \E save \in BOOLEAN :
          IF save
          THEN UNCHANGED <<diskVars, log>>
          ELSE /\ lingsync_json' = NoFile
               /\ old_json' = NoStore
               /\ local_files' = {}
               /\ log' = Append(log, Event("rmtree", 0))
    /\ UNCHANGED <<options, source, run, memoryVars>>
    /\ UNCHANGED <<uploadVars, convVars>>
    /\ UNCHANGED mapVars

\* The script has stopped: it returned, it exited, or it died of an
\* exception.
RunEnded ==
    \/ mpc \in {"done", "exited"}
    \/ cpc = "crashed"
    \/ mpc = "upload" /\ pc = "exited"

AllOptions == {Options(fd, fc, FALSE) : fd, fc \in BOOLEAN}

\* The operator runs the script again: the memory of the process is new,
\* the files on disk are what the earlier run left.
RunAgain ==
    /\ RunEnded
    /\ run < MaxRuns
    /\ run' = run + 1
    /\ options' \in AllOptions
    /\ mpc' = "download"
    /\ pc' = "waiting"
    /\ requests' = <<>>
    /\ exit_reason' = ""
    /\ cpc' = "idle"
    /\ staging' = EmptyStaging
    /\ warnings' = NoWarnings
    /\ rows' = <<>>
    /\ row' = 1
    /\ old_keys' = {}
    /\ old_files' = <<>>
    /\ languages' = {}
    /\ downloaded_files' = <<>>
    /\ UNCHANGED <<old_data, destination, i, relational_map, next_id,
                   migration_tag_name, to_create, to_update, r, overwrites>>
    /\ UNCHANGED <<source, diskVars, log>>
    /\ UNCHANGED mapVars

\* A run of main: the flags, the source and the files on disk it starts
\* from.
MainStart(opts, src, raw, store, disk, first) ==
    /\ UploadState(Scenario(BaseStore, BaseDestination))
    /\ pc = "waiting"
    /\ IdleConversion
    /\ options = opts
    /\ source = src
    /\ lingsync_json = raw
    /\ old_json = store
    /\ local_files = disk
    /\ log = <<>>
    /\ mpc = "download"
    /\ run = first
    /\ EmptyMemory
    /\ IdleMap

\* The runs SpecMain starts from: every combination of the flags and the
\* files of an earlier run, followed by a second run; every set of
\* documents; every list of media files; one media file over two runs.
InitMain ==
    \/ \E opts \in AllOptions, raw \in {NoFile, EarlierFile},
          store \in {NoStore, EarlierStore} :
          MainStart(opts, BaseRows, raw, store, {}, 1)
    \/ \E src \in DocSets :
          MainStart(Options(TRUE, TRUE, FALSE), src, NoFile, NoStore, {},
                    MaxRuns)
    \/ \E fs \in MediaLists, ff \in BOOLEAN, disk \in {{}, {1}},
          first \in {PlainDatum, WarnedDatum} :
          MainStart(Options(FALSE, FALSE, ff),
                    <<GoodSession, [first EXCEPT !.files = fs]>>,
                    NoFile, NoStore, disk, MaxRuns)
    \/ \E first \in {PlainDatum, WarnedDatum} :
          MainStart(Options(FALSE, FALSE, FALSE),
                    <<GoodSession,
                      [first EXCEPT !.files = <<MediaFile(1, 1000, TRUE)>>]>>,
                    NoFile, NoStore, {}, 1)

NextMain ==
    \/ Download
    \/ Convert
    \/ ProcessSession
    \/ ProcessDatum
    \/ ProcessUser
    \/ ProcessDatalist
    \/ EndOfPass
    \/ ConsolidateResources
    \/ GetOldApplicationSettings
    \/ CheckFileSizes
    \/ DownloadFile
    \/ EndOfFiles
    \/ WriteOldDataToDisk
    \/ Upload
    \/ Login
    \/ CreateApplicationSettings
    \/ Cleanup
    \/ RunAgain

SpecMain == InitMain /\ [][NextMain]_vars

----------------------------------------------------------------------------
(* Properties of main.                                                      *)

\* The entries of the history a run n made with event ev.
EventsOf(h, n, ev) == {k \in DOMAIN h : h[k].run = n /\ h[k].ev = ev}

\* What a step adds to the history.
Appended == SubSeq(log', Len(log) + 1, Len(log'))

SourceRequests == {"login_couchdb", "get_all_docs_list"}

\* The extraction phase of the current run takes its step.
ExtractionStep == mpc = "download" /\ mpc' # "download"

\* Run n extracted without the force flag, went on to conversion, and did
\* not destroy its files.
ExtractedUnforced(n) ==
    /\ \E k \in EventsOf(log, n, "download") : log[k].arg = 0
    /\ EventsOf(log, n, "convert") # {}
    /\ EventsOf(log, n, "rmtree") = {}

\* C13: an extraction that finds the raw-documents file and has no force
\* flag sends nothing to the source (no login, no fetch) and leaves the
\* file as it is; so of two extractions in a row without the flag the
\* second leaves the file of the first, and both together fetch at most
\* once.
C13_ExtractionIdempotent ==
    [][ExtractionStep =>
        /\ (lingsync_json.exists /\ ~options.force_download) =>
              /\ \A k \in DOMAIN Appended :
                    Appended[k].ev \notin
                        SourceRequests \cup {"write_lingsync_json"}
              /\ lingsync_json' = lingsync_json
        /\ (run > 1 /\ ~options.force_download /\ ExtractedUnforced(run - 1)) =>
              /\ lingsync_json' = lingsync_json
              /\ Cardinality(EventsOf(log', run - 1, "get_all_docs_list")
                             \cup EventsOf(log', run, "get_all_docs_list"))
                    <= 1]_vars

\* Two extractions in a row without the flag, the first of which fetched.
C13_Witness ==
    /\ run > 1
    /\ ExtractedUnforced(run - 1)
    /\ EventsOf(log, run - 1, "get_all_docs_list") # {}
    /\ \E k \in EventsOf(log, run, "download") : log[k].arg = 0
    /\ EventsOf(log, run, "convert") # {}
    /\ lingsync_json.exists

\* What the converter leaves in the history: a document folded into the
\* Staging Store, a question about the media files, a media download, the
\* Staging Store file written.
ConverterEvents ==
    {"update_state", "raw_input", "requests_get", "write_old_data"}

\* The conversion phase of the current run takes its first step.
ConversionStep == mpc = "convert" /\ mpc' # "convert"

\* A step of the converter, lingsync2old.
ConverterActs ==
    \/ \E k \in DOMAIN Appended : Appended[k].ev \in ConverterEvents
    \/ old_json'.exists /\ old_json' # old_json

\* C14: a conversion phase that finds the Staging Store file and has no
\* force flag does not call the converter: the file stays as it is, and
\* nothing is mapped or downloaded in the phase, since the converter acts
\* only where it was called.  With the flag, or without the file, the
\* converter is called, and where it returns the file is written with the
\* Staging Store it built.
C14_ConversionShortCircuits ==
    [][/\ (ConversionStep /\ old_json.exists /\ ~options.force_convert) =>
             /\ mpc' = "upload"
             /\ cpc' = "idle"
             /\ old_json' = old_json
             /\ ~ConverterActs
       /\ (ConversionStep /\ (options.force_convert \/ ~old_json.exists)) =>
             \/ mpc' = "converting" /\ cpc' = "sessions"
             \/ mpc' = "exited" /\ ~lingsync_json.has_rows
       /\ ConverterActs => mpc = "converting"
       /\ (mpc = "converting" /\ mpc' = "upload") =>
             /\ old_json' = [exists |-> TRUE, files |-> old_files]
             /\ Appended = <<Event("write_old_data", 0)>>]_vars

\* A run went past a conversion phase that found the file of an earlier
\* run and had no force flag.
C14_Witness ==
    /\ mpc = "upload"
    /\ \E k \in EventsOf(log, run, "convert") : log[k].arg = 0
    /\ old_json = EarlierStore
    /\ \A k \in DOMAIN log : log[k].ev \notin ConverterEvents

\* Run n was refused by the source: the login had no ok, or the fetch
\* answered 'unauthorized'.
SourceRefused(h, n) ==
    \E k \in DOMAIN h :
        /\ h[k].run = n
        /\ h[k].ev \in SourceRequests
        /\ h[k].arg = 0

\* What a run does after its extraction phase.
LaterEvents == ConverterEvents \cup {"write_lingsync_json", "convert"}

\* C15: a run the source refuses (login without ok, or fetch answered
\* 'unauthorized') exits with the raw-documents file as it was, and
\* neither converts nor uploads; a run the destination refuses at login
\* exits without having sent a create, update or delete request.
C15_AuthenticationFailureIsFatal ==
    /\ [](/\ SourceRefused(log, run) =>
                /\ mpc = "exited"
                /\ cpc = "idle"
                /\ pc = "waiting"
                /\ requests = <<>>
          /\ \A k \in DOMAIN log :
                SourceRefused(log, log[k].run) => log[k].ev \notin LaterEvents
          /\ (pc = "exited" /\ exit_reason = "login") => requests = <<>>)
    /\ [][/\ SourceRefused(log', run) => lingsync_json' = lingsync_json
          /\ (pc = "login" /\ pc' = "exited") =>
                exit_reason' = "login" /\ requests' = <<>>]_vars

\* A forced download that the source answered 'unauthorized', with the file
\* of an earlier run on disk.
C15_Witness ==
    /\ \E k \in EventsOf(log, run, "get_all_docs_list") : log[k].arg = 0
    /\ \E k \in EventsOf(log, run, "download") : log[k].arg = 1
    /\ mpc = "exited"
    /\ lingsync_json = EarlierFile

\* Row j is handled after row k: in a later loop, or later in the same one.
HandledAfter(j, k) ==
    LET pass(n) == PositionIn(Passes, rows[n].collection)
    IN  pass(j) > pass(k) \/ (pass(j) = pass(k) /\ j > k)

\* Row k is a session with neither sessionFields nor fields.
IsBareSession(k) == rows[k].collection = "sessions" /\ ~rows[k].fields

\* C16: when the rows hold a session document without a field list, the
\* conversion aborts at it: no document handled after it is folded into
\* the Staging Store, and the run writes no Staging Store file.
C16_BareSessionAborts ==
    \A k \in DOMAIN rows :
        IsBareSession(k) =>
            /\ EventsOf(log, run, "write_old_data") = {}
            /\ \A j \in DOMAIN rows :
                  HandledAfter(j, k) =>
                      \A e \in EventsOf(log, run, "update_state") :
                          log[e].arg # rows[j].id

\* old_data['files'] as the loops over rows leave it: the file payloads of
\* the datums, in order.
RECURSIVE StagedFiles(_)
StagedFiles(k) ==
    IF k = 0 THEN <<>>
    ELSE IF rows[k].collection = "datums"
         THEN AppendNew(StagedFiles(k - 1), rows[k].files)
         ELSE StagedFiles(k - 1)

\* The conversion of the current run has come to the media files.
AtMediaFiles == mpc = "converting" /\ cpc \in {"media_loop", "write", "crashed"}

Declined == \E k \in EventsOf(log, run, "raw_input") : log[k].arg = 0

LotsOfFileData == [kind |-> "lots of file data"]

\* C17: when a staged file is over the large-file threshold or the staged
\* sizes sum to more than the large-aggregate threshold, every download
\* comes after the operator's 'y'; after another answer the files list is
\* empty, the general warning is recorded, nothing is downloaded, and the
\* conversion goes on to write its file.  Under the thresholds nothing is
\* asked.
C17_LargeFilesNeedConfirmation ==
    LET staged == StagedFiles(Len(rows))
    IN  /\ MustAsk(staged) =>
              \A e \in EventsOf(log, run, "requests_get") :
                  \E k \in EventsOf(log, run, "raw_input") :
                      k < e /\ log[k].arg = 1
        /\ Declined =>
              /\ EventsOf(log, run, "requests_get") = {}
              /\ cpc \in {"write", "idle"}
              /\ LotsOfFileData \in warnings.general
              /\ cpc = "write" => old_files = <<>>
              /\ cpc = "idle" => EventsOf(log, run, "write_old_data") # {}
              /\ mpc = "upload" => old_json = [exists |-> TRUE, files |-> <<>>]
        /\ ~MustAsk(staged) => EventsOf(log, run, "raw_input") = {}

\* The download or the local write of the file of datum d failed in the
\* current run.
DownloadFailed(d) ==
    \E e \in EventsOf(log, run, "download_failed") : log[e].arg = d

\* The staged files without those that failed and those that have no URL
\* or file name, in the order they were staged.
RECURSIVE Surviving(_)
Surviving(files) ==
    IF files = <<>> THEN <<>>
    ELSE IF files[1].url /\ ~DownloadFailed(files[1].lingsync_datum_id)
         THEN <<[files[1] EXCEPT !.local_file_path = TRUE]>> \o
              Surviving(Tail(files))
         ELSE Surviving(Tail(files))

\* C18: when the download or the local write of a file fails, the
\* conversion goes on, a general warning about the file is recorded, and
\* the files list ends as the staged list without that payload, the other
\* payloads in their order.
C18_FailedDownloadDropsOneFile ==
    /\ \A e \in EventsOf(log, run, "download_failed") :
          /\ cpc # "crashed"
          /\ [kind |-> "download failed", datum |-> log[e].arg]
                \in warnings.general
    /\ (cpc = "write" /\ ~Declined) =>
          old_files = Surviving(StagedFiles(Len(rows)))

\* The warnings consolidate_resources has to add for the staged resources.
ConsolidationWarnings ==
    ConsolidateKind("users", staging.users).warnings \cup
    ConsolidateKind("speakers", staging.speakers).warnings \cup
    ConsolidateKind("tags", staging.tags).warnings

\* The step folds a document whose mapper gave a general warning.
FoldsWarnedDocument ==
    \E e \in DOMAIN Appended :
        /\ Appended[e].ev = "update_state"
        /\ \E k \in DOMAIN rows :
              rows[k].id = Appended[e].arg /\ rows[k].general

\* The operator answers the question about the large files with no.
DeclinesNow ==
    \E e \in DOMAIN Appended :
        Appended[e].ev = "raw_input" /\ Appended[e].arg = 0

\* C19: a step that has a warning to record completes, and the warning is
\* in the accumulated set afterwards, whether or not a general warning was
\* recorded before: the fold of a document with a general warning, the
\* consolidation, the choice of the object language, the declined question
\* about large files, a file without URL or file name.
C19_WarningsNeverAbort ==
    [][/\ FoldsWarnedDocument => MapperWarning \in warnings'.general
       /\ (cpc = "folding" /\ cpc' # cpc) =>
             /\ ConsolidationWarnings \subseteq warnings'.general
             /\ ConsolidationWarnings # {} => cpc' = "consolidated"
       /\ (cpc = "consolidated" /\ cpc' # cpc /\ "forms" \in old_keys
             /\ Cardinality(languages) > 1) =>
             /\ cpc' = "media"
             /\ [kind |-> "languages"] \in warnings'.general
       /\ DeclinesNow =>
             /\ cpc' = "write"
             /\ LotsOfFileData \in warnings'.general
       /\ (cpc = "media_loop" /\ row' = row + 1 /\ ~old_files[row].url) =>
             /\ cpc' = "media_loop"
             /\ [kind |-> "not retrievable",
                 datum |-> old_files[row].lingsync_datum_id]
                   \in warnings'.general]_vars

----------------------------------------------------------------------------
(* The length-bounded fields of the mappers: process_lingsync_datum,       *)
(* process_lingsync_datalist, process_lingsync_session.  A string is the   *)
(* sequence of its characters; a fixed piece of text of the script is one  *)
(* element.                                                                *)

\* The maximum length of most fields (line 1688) and of syntax (line 1772).
FieldMax == 255
SyntaxMax == 1023

Digits == <<"0", "1", "2", "3", "4", "5", "6", "7", "8", "9">>

\* A value of n characters for the source field marked f: digits, with the
\* mark at every tenth place.
Str(f, n) == [k \in 1..n |-> IF k % 10 = 0 THEN f ELSE Digits[(k % 10) + 1]]

\* string[:n]
Slice(string, n) ==
    SubSeq(string, 1, IF Len(string) < n THEN Len(string) ELSE n)

Whitespace == {" ", "\n"}

\* string.strip()
RECURSIVE LStrip(_)
LStrip(string) ==
    IF string # <<>> /\ string[1] \in Whitespace
    THEN LStrip(Tail(string)) ELSE string
RECURSIVE RStrip(_)
RStrip(string) ==
    IF string # <<>> /\ string[Len(string)] \in Whitespace
    THEN RStrip(SubSeq(string, 1, Len(string) - 1)) ELSE string
Strip(string) == RStrip(LStrip(string))

\* sep.join(parts)
RECURSIVE JoinWith(_, _)
JoinWith(sep, parts) ==
    IF parts = <<>> THEN <<>>
    ELSE IF Len(parts) = 1 THEN parts[1]
    ELSE parts[1] \o sep \o JoinWith(sep, Tail(parts))

\* punctuate_period_safe, lines 2193-2202.
punctuate_period_safe(string) ==
    IF string[Len(string)] \in {"?", ".", "!"}
    THEN string ELSE Append(string, ".")

\* The characters of a string that are decimal digits, and int(string).
IsNumber(string) ==
    string # <<>> /\ \A k \in 1..Len(string) : string[k] \in Range(Digits)

DigitValue(c) == CHOOSE n \in 0..9 : Digits[n + 1] = c

RECURSIVE int(_)
int(string) ==
    IF string = <<>> THEN 0
    ELSE 10 * int(SubSeq(string, 1, Len(string) - 1))
            + DigitValue(string[Len(string)])

\* str(n) of a natural number.
RECURSIVE NumStr(_)
NumStr(n) ==
    IF n < 10 THEN <<Digits[n + 1]>>
    ELSE NumStr(n \div 10) \o <<Digits[(n % 10) + 1]>>

\* string.zfill(width)
RECURSIVE zfill(_, _)
zfill(string, width) ==
    IF Len(string) >= width THEN string ELSE zfill(<<"0">> \o string, width)

\* The pieces of a string between the characters of seps, empty ones kept.
RECURSIVE SplitOn(_, _)
SplitOn(string, seps) ==
    IF string = <<>> THEN <<<<>>>>
    ELSE LET rest == SplitOn(Tail(string), seps)
         IN  IF Head(string) \in seps THEN <<<<>>>> \o rest
             ELSE <<<<Head(string)>> \o Head(rest)>> \o Tail(rest)

IsLeap(year) == year % 4 = 0 /\ (year % 100 # 0 \/ year % 400 = 0)

DaysIn(year, month) ==
    IF month = 2 THEN (IF IsLeap(year) THEN 29 ELSE 28)
    ELSE IF month \in {4, 6, 9, 11} THEN 30 ELSE 31

\* datetime.datetime.strptime(date_string, format) for the two formats of the
\* script; %Y is four digits, %m and %d are one or two, and the date must
\* exist.
strptime(date_string, format) ==
    LET parts == SplitOn(date_string,
                         IF format = "%Y-%m-%d" THEN {"-"} ELSE {"/"})
        at == IF format = "%Y-%m-%d"
              THEN [Y |-> 1, m |-> 2, d |-> 3] ELSE [Y |-> 3, m |-> 1, d |-> 2]
        matches ==
            /\ Len(parts) = 3
            /\ \A k \in 1..3 : IsNumber(parts[k])
            /\ Len(parts[at.Y]) = 4
            /\ Len(parts[at.m]) <= 2
            /\ Len(parts[at.d]) <= 2
            /\ int(parts[at.Y]) >= 1
            /\ int(parts[at.m]) \in 1..12
            /\ int(parts[at.d]) \in
                    1..DaysIn(int(parts[at.Y]), int(parts[at.m]))
    IN  IF matches
        THEN [raises |-> FALSE, year |-> int(parts[at.Y]),
              month |-> int(parts[at.m]), day |-> int(parts[at.d])]
        ELSE [raises |-> TRUE, year |-> 0, month |-> 0, day |-> 0]

\* Lines 1475-1498 and 2155-2180: the MM/DD/YYYY string made from
\* date_session_elicited, empty when neither format parses it.
DateElicited(date_session_elicited) ==
    LET first == strptime(date_session_elicited, "%Y-%m-%d")
        second == strptime(date_session_elicited, "%m/%d/%Y")
        datetime_inst == IF first.raises THEN second ELSE first
    IN  IF date_session_elicited = <<>> \/ datetime_inst.raises
        THEN [date_elicited |-> <<>>,
              unparseable |-> date_session_elicited # <<>>]
        ELSE [date_elicited |->
                zfill(NumStr(datetime_inst.month), 2) \o <<"/">> \o
                zfill(NumStr(datetime_inst.day), 2) \o <<"/">> \o
                NumStr(datetime_inst.year),
              unparseable |-> FALSE]

\* str.lower and str.upper on the letters the documents use.
LowerCase == <<"a", "d", "s">>
UpperCase == <<"A", "D", "S">>

lower(string) ==
    [k \in 1..Len(string) |->
        IF \E n \in 1..Len(UpperCase) : UpperCase[n] = string[k]
        THEN LowerCase[CHOOSE n \in 1..Len(UpperCase) :
                            UpperCase[n] = string[k]]
        ELSE string[k]]

upper(string) ==
    [k \in 1..Len(string) |->
        IF \E n \in 1..Len(LowerCase) : LowerCase[n] = string[k]
        THEN UpperCase[CHOOSE n \in 1..Len(LowerCase) :
                            LowerCase[n] = string[k]]
        ELSE string[k]]

\* str.capitalize
capitalize(string) ==
    IF string = <<>> THEN <<>>
    ELSE upper(<<Head(string)>>) \o lower(Tail(string))

NonEmpty(string) == string # <<>>

\* string.split()
split(string) == SelectSeq(SplitOn(string, Whitespace), NonEmpty)

\* A docspecific warning about a value that is too long.
TooLongWarning(attr, value) == [attr |-> attr, value |-> value]

\* Any other warning of a mapper.
Warning(about, value) == [attr |-> about, value |-> value]

\* u'<text>: \u2018%s\u2019' % punctuate_period_safe(value)
WithoutTruncation(text, value) ==
    <<text, "\\u2018">> \o punctuate_period_safe(value) \o <<"\\u2019">>

\* x if test else nothing, as a list.
Only(test, x) == IF test THEN <<x>> ELSE <<>>

\* A mapper that returns None.
ReturnsNone == [old_resource |-> "None"]

\* Lines 1622-1634 and 2113-2124: the speaker made from one token of the
\* consultants value.
InitialsSpeaker(consultant, dialect) ==
    IF upper(consultant) = consultant
    THEN Speaker(<<<<Head(consultant)>>, Tail(consultant)>>, dialect)
    ELSE Speaker(<<consultant, consultant>>, dialect)

\* Lines 1599-1634: the speakers of a datum; two capitalized words are one
\* speaker, whose dialect stays empty.
DatumSpeakers(consultants, dialect) ==
    LET consultants_list == split(consultants)
    IN  IF Len(consultants_list) = 2
           /\ consultants_list[1] = capitalize(lower(consultants_list[1]))
           /\ consultants_list[2] = capitalize(lower(consultants_list[2]))
        THEN <<Speaker(<<consultants_list[1], consultants_list[2]>>, <<>>)>>
        ELSE [k \in 1..Len(consultants_list) |->
                InitialsSpeaker(consultants_list[k], dialect)]

\* Lines 2109-2124: the speakers of a session, one for every token.
SessionSpeakers(consultants, dialect) ==
    LET consultants_list == split(consultants)
    IN  [k \in 1..Len(consultants_list) |->
            InitialsSpeaker(consultants_list[k], dialect)]

\* u'%s %s' % (s['first_name'], s['last_name']) joined by ', '.
SpeakerStrs(speakers) ==
    JoinWith(<<",", " ">>,
             [k \in 1..Len(speakers) |->
                speakers[k].first_name \o <<" ">> \o speakers[k].last_name])

\* process_lingsync_datum, lines 1470-1498 (date elicited), 1589-1670
\* (deleted, speaker, elicitor), 1682-1778 (the bounded fields) and
\* 1797-1872 (the comments).  Line 1777 cuts syntax at 255.
process_lingsync_datum(doc) ==
    LET ls_utterance == doc.utterance
        ls_morphemes == doc.morphemes
        ls_phonetic == doc.phonetic
        ls_gloss == doc.gloss
        ls_syntacticTreeLatex == doc.syntacticTreeLatex
        ls_enteredByUser == doc.enteredByUser
        date_session_elicited == doc.session.dateElicited
        date == DateElicited(date_session_elicited)
        speakers == DatumSpeakers(doc.session.consultants, doc.session.dialect)
        ls_utterance_too_long == Len(ls_utterance) > FieldMax
        ls_morphemes_too_long == Len(ls_morphemes) > FieldMax
        ls_phonetic_too_long == Len(ls_phonetic) > FieldMax
        ls_gloss_too_long == Len(ls_gloss) > FieldMax
        ls_syntacticTreeLatex_too_long ==
            Len(ls_syntacticTreeLatex) > SyntaxMax
        old_form_creation_metadata ==
            Strip(JoinWith(<<" ">>,
                Only(ls_enteredByUser # <<>> /\ doc.dateEntered,
                     <<"This form was created from LingSync datum">>) \o
                Only(date.unparseable,
                     <<"The datum was elicited on ">> \o
                     date_session_elicited \o <<".">>)))
        old_form_errored_data ==
            Strip(JoinWith(<<" ">>,
                Only(ls_utterance_too_long,
                     WithoutTruncation(
                        "LingSync datum utterance value without truncation: ",
                                       ls_utterance)) \o
                Only(ls_morphemes_too_long,
                     WithoutTruncation(
                        "LingSync morphemes value without truncation: ",
                                       ls_morphemes)) \o
                Only(ls_phonetic_too_long,
                     WithoutTruncation(
                        "LingSync phonetic value without truncation: ",
                                       ls_phonetic)) \o
                Only(ls_gloss_too_long,
                     WithoutTruncation(
                        "LingSync datum gloss value without truncation: ",
                                       ls_gloss)) \o
                Only(ls_syntacticTreeLatex_too_long,
                     WithoutTruncation(
                        "LingSync datum syntacticTreeLatex value without truncation: ",
                        ls_syntacticTreeLatex))))
        old_comments ==
            Only(Len(speakers) > 1,
                 punctuate_period_safe(
                    <<"Consultants: ">> \o SpeakerStrs(speakers))) \o
            Only(old_form_creation_metadata # <<>>,
                 old_form_creation_metadata) \o
            Only(old_form_errored_data # <<>>, old_form_errored_data)
    IN  [old_resource |-> "forms",
         old_value |->
            [transcription |->
                IF ls_utterance = <<>> THEN <<"PLACEHOLDER">>
                ELSE IF ls_utterance_too_long
                THEN Slice(ls_utterance, 255) ELSE ls_utterance,
             morpheme_break |->
                IF ls_morphemes_too_long
                THEN Slice(ls_morphemes, 255) ELSE ls_morphemes,
             phonetic_transcription |->
                IF ls_phonetic_too_long
                THEN Slice(ls_phonetic, 255) ELSE ls_phonetic,
             morpheme_gloss |->
                IF ls_gloss_too_long THEN Slice(ls_gloss, 255) ELSE ls_gloss,
             syntax |->
                IF ls_syntacticTreeLatex_too_long
                THEN Slice(ls_syntacticTreeLatex, 255)
                ELSE ls_syntacticTreeLatex,
             comments |-> Strip(JoinWith(<<"\n", "\n">>, old_comments)),
             date_elicited |-> date.date_elicited,
             speaker |->
                IF Len(speakers) >= 1 THEN speakers[1] ELSE NoSpeaker,
             elicitor |->
                IF ls_enteredByUser # <<>>
                THEN User(ls_enteredByUser) ELSE NoUser,
             lingsync_deleted |-> doc.trashed],
         auxiliary |->
            [speakers |-> speakers,
             users |-> Only(ls_enteredByUser # <<>>, User(ls_enteredByUser))],
         general |->
            Only(ls_enteredByUser # <<>>,
                 Warning("elicitor from enteredByUser", ls_enteredByUser)) \o
            Only(ls_enteredByUser # <<>>,
                 Warning("fake email", ls_enteredByUser)),
         docspecific |->
            Only(date.unparseable,
                 Warning("unparseable date", date_session_elicited)) \o
            Only(Len(speakers) > 1,
                 Warning("more than one consultant", <<>>)) \o
            Only(ls_utterance_too_long,
                 TooLongWarning("utterance", ls_utterance)) \o
            Only(ls_morphemes_too_long,
                 TooLongWarning("morphemes", ls_morphemes)) \o
            Only(ls_phonetic_too_long,
                 TooLongWarning("phonetic", ls_phonetic)) \o
            Only(ls_gloss_too_long, TooLongWarning("gloss", ls_gloss)) \o
            Only(ls_syntacticTreeLatex_too_long,
                 TooLongWarning("syntacticTreeLatex",
                                ls_syntacticTreeLatex))]

\* process_lingsync_datalist, lines 1173-1222: the description is made of
\* the datalist's description and metadata; title_too_long is set and not
\* read.
process_lingsync_datalist(doc) ==
    LET ls_title == doc.title
        title_too_long == Len(ls_title) > FieldMax
        old_description ==
            Only(doc.description # <<>>, doc.description) \o
            <<<<"This corpus was generated from LingSync datalist">>>>
    IN  [old_resource |-> "corpora",
         old_value |->
            [name |->
                IF ls_title = <<>>
                THEN <<"Corpus from LingSync datalist">>
                ELSE IF title_too_long
                THEN Slice(ls_title, 255) ELSE ls_title,
             description |->
                Strip(JoinWith(<<"\n", "\n">>, old_description))],
         auxiliary |-> [speakers |-> <<>>, users |-> <<>>],
         general |-> <<>>,
         docspecific |->
            Only(ls_title = <<>>, TooLongWarning("no title", <<>>)) \o
            Only(title_too_long, TooLongWarning("title", ls_title))]

\* process_lingsync_session, lines 1942-1954 (None without fields or when
\* deleted), 2047-2105 (title and description; the description is stored
\* inside the branch of a session that has comments), 2106-2149 (speaker
\* and elicitor) and 2151-2180 (date elicited).
process_lingsync_session(doc) ==
    LET goal == doc.goal
        consultants == doc.consultants
        dialect == doc.dialect
        date_session_elicited == doc.dateElicited
        user == doc.user
        date == DateElicited(date_session_elicited)
        speakers == SessionSpeakers(consultants, dialect)
        description ==
            <<<<"This collection was created from a LingSync session">>>> \o
            Only(goal # <<>>, <<"Goal: ">> \o punctuate_period_safe(goal)) \o
            Only(consultants # <<>>,
                 <<"Consultants: ">> \o punctuate_period_safe(consultants)) \o
            Only(dialect # <<>>,
                 <<"Dialect: ">> \o punctuate_period_safe(dialect)) \o
            Only(date_session_elicited # <<>>,
                 <<"Elicitation session date: ">> \o
                 punctuate_period_safe(date_session_elicited)) \o
            Only(doc.comments, <<"Comment">>)
    IN  IF ~SessionIsMapped(doc) THEN ReturnsNone
        ELSE
        [old_resource |-> "collections",
         old_value |->
            [title |->
                IF goal = <<>>
                THEN (IF date_session_elicited # <<>>
                      THEN <<"Elicitation Session on ">> \o
                           date_session_elicited
                      ELSE <<"Elicitation Session ", "id">>)
                ELSE IF Len(goal) > FieldMax
                THEN Slice(goal, 255) ELSE goal,
             description |->
                IF doc.comments
                THEN JoinWith(<<"\n", "\n">>, description) ELSE <<>>,
             date_elicited |-> date.date_elicited,
             speaker |->
                IF Len(speakers) >= 1 THEN speakers[1] ELSE NoSpeaker,
             elicitor |-> IF user # <<>> THEN User(user) ELSE NoUser],
         auxiliary |->
            [speakers |-> speakers,
             users |-> Only(user # <<>>, User(user))],
         general |-> <<>>,
         docspecific |->
            Only(goal = <<>>, TooLongWarning("no goal", <<>>)) \o
            Only(goal = <<>> /\ date_session_elicited = <<>>,
                 TooLongWarning("no date elicited", <<>>)) \o
            Only(Len(goal) > FieldMax, TooLongWarning("goal", goal)) \o
            Only(Len(speakers) > 1,
                 Warning("more than one consultant", <<>>))]

\* old_user = None, line 1343.
None == [none |-> TRUE]

\* my_strip, lines 1233-1241.
my_strip(thing) == Strip(thing)

\* process_lingsync_user, lines 1298-1350: the payload is None for a user
\* document without a username.
process_lingsync_user(doc) ==
    LET ls_username == my_strip(doc.username)
        ls_firstname == my_strip(doc.firstname)
        ls_lastname == my_strip(doc.lastname)
        ls_email == my_strip(doc.email)
        ls_description == my_strip(doc.description)
        old_page_content ==
            Strip(JoinWith(<<"\n", "\n">>,
                           Only(ls_description # <<>>, ls_description)))
    IN  [old_resource |-> "users",
         old_value |->
            IF ls_username # <<>>
            THEN [username |-> ls_username,
                  first_name |->
                    IF ls_firstname # <<>>
                    THEN ls_firstname ELSE ls_username,
                  last_name |->
                    IF ls_lastname # <<>> THEN ls_lastname ELSE ls_username,
                  email |-> IF ls_email # <<>> THEN ls_email ELSE FAKE_EMAIL,
                  affiliation |-> "",
                  role |-> "administrator",
                  page_content |->
                    IF old_page_content # <<>> THEN old_page_content ELSE ""]
            ELSE None,
         auxiliary |-> [speakers |-> <<>>, users |-> <<>>],
         general |->
            Only(ls_username # <<>> /\ ls_email = <<>>,
                 Warning("fake email", ls_username)),
         docspecific |-> <<>>]

\* old_data with nothing in it, and update_state, lines 1024-1036: the
\* resource of the Conversion Result, then its auxiliary resources.
EmptyStore ==
    [forms |-> <<>>, collections |-> <<>>, corpora |-> <<>>, users |-> <<>>,
     speakers |-> <<>>]

update_state(old_object, old) ==
    [key \in DOMAIN old |->
        AppendNew(IF key = old_object.old_resource
                  THEN AppendUnlessThere(old[key], old_object.old_value)
                  ELSE old[key],
                  IF key \in DOMAIN old_object.auxiliary
                  THEN old_object.auxiliary[key] ELSE <<>>)]

\* The lengths of the values the mappers are given.
FieldLengths == {0, 2, FieldMax, FieldMax + 1}
SyntaxLengths == {0, FieldMax, FieldMax + 1, SyntaxMax, SyntaxMax + 1}

\* Values of dateElicited, consultants, dialect and of a username field.
DateStrings ==
    {<<"2", "0", "2", "0", "-", "0", "3", "-", "0", "4">>,
     <<"0", "3", "/", "0", "4", "/", "2", "0", "2", "0">>,
     <<"n", "o", "t", "-", "a", "-", "d", "a", "t", "e">>,
     <<"2", "0", "2", "0", "-", "3", "-", "4">>,
     <<"2", "0", "2", "0", "-", "0", "2", "-", "3", "0">>,
     <<"1", "3", "/", "0", "1", "/", "2", "0", "2", "0">>,
     <<"0", "9", "9", "9", "-", "0", "3", "-", "0", "4">>,
     <<"2", "0", "2", "4", "-", "0", "2", "-", "2", "9">>}

ConsultantStrings ==
    {<<"D", "a", " ", "S", "a">>,
     <<"D", "S">>,
     <<"d", "a">>,
     <<"D", "S", " ", "A", "D">>,
     <<"D", " ", "S">>,
     <<"D", "a">>,
     <<"D", "a", " ", "S", "a", " ", "A", "d">>,
     <<" ", " ">>}

DialectStrings == {<<>>, <<"X">>}

UsernameStrings == {<<>>, <<"a", "d">>}

NoSession == [dateElicited |-> <<>>, consultants |-> <<>>, dialect |-> <<>>]

\* The session fields of the documents that have them: a date, or
\* consultants and a dialect.
SessionDetails ==
    {[dateElicited |-> t, consultants |-> <<>>, dialect |-> <<>>] :
        t \in DateStrings} \cup
    {[dateElicited |-> <<>>, consultants |-> c, dialect |-> x] :
        c \in ConsultantStrings, x \in DialectStrings}

DatumDocs ==
    {[collection |-> "datums", enteredByUser |-> e, dateEntered |-> TRUE,
      utterance |-> Str("u", a),
      morphemes |-> Str("m", b), phonetic |-> Str("p", c),
      gloss |-> Str("g", d), syntacticTreeLatex |-> Str("s", n),
      session |-> NoSession, trashed |-> FALSE] :
        e \in UsernameStrings, a \in FieldLengths, b \in FieldLengths,
        c \in {0, FieldMax + 1}, d \in {0, FieldMax + 1},
        n \in SyntaxLengths} \cup
    {[collection |-> "datums", enteredByUser |-> e, dateEntered |-> f,
      utterance |-> Str("u", 2),
      morphemes |-> <<>>, phonetic |-> <<>>,
      gloss |-> <<>>, syntacticTreeLatex |-> <<>>,
      session |-> x, trashed |-> t] :
        e \in UsernameStrings, f \in BOOLEAN, x \in SessionDetails,
        t \in BOOLEAN}

DatalistDocs ==
    {[collection |-> "datalists", title |-> Str("t", a),
      description |-> Str("d", b)] :
        a \in FieldLengths, b \in {0, 2}}

SessionDocs ==
    {[collection |-> "sessions", goal |-> Str("g", a), comments |-> c,
      dateElicited |-> <<>>, consultants |-> <<>>, dialect |-> <<>>,
      user |-> <<>>, fields |-> TRUE, trashed |-> FALSE] :
        a \in FieldLengths, c \in BOOLEAN} \cup
    {[collection |-> "sessions", goal |-> Str("g", a), comments |-> c,
      dateElicited |-> x.dateElicited, consultants |-> x.consultants,
      dialect |-> x.dialect,
      user |-> u, fields |-> f, trashed |-> t] :
        a \in {0, 2}, c \in BOOLEAN, x \in SessionDetails,
        u \in UsernameStrings, f \in BOOLEAN, t \in BOOLEAN}

UserDocs ==
    {[collection |-> "users", username |-> u, firstname |-> f,
      lastname |-> l, email |-> e, description |-> d] :
        u \in UsernameStrings \cup {<<" ">>},
        f \in {<<>>, <<"D", "a">>}, l \in {<<>>, <<"S", "a">>},
        e \in {<<>>, <<"d", "@", "s">>}, d \in {<<>>, <<"d", "s">>}}

MapDatum ==
    /\ lingsync_doc.collection = "datums"
    /\ oldobj = NoObject
    /\ oldobj' = process_lingsync_datum(lingsync_doc)
    /\ UNCHANGED <<lingsync_doc, folded, uploadVars, convVars, mainVars>>

MapDatalist ==
    /\ lingsync_doc.collection = "datalists"
    /\ oldobj = NoObject
    /\ oldobj' = process_lingsync_datalist(lingsync_doc)
    /\ UNCHANGED <<lingsync_doc, folded, uploadVars, convVars, mainVars>>

MapSession ==
    /\ lingsync_doc.collection = "sessions"
    /\ oldobj = NoObject
    /\ oldobj' = process_lingsync_session(lingsync_doc)
    /\ UNCHANGED <<lingsync_doc, folded, uploadVars, convVars, mainVars>>

MapUser ==
    /\ lingsync_doc.collection = "users"
    /\ oldobj = NoObject
    /\ oldobj' = process_lingsync_user(lingsync_doc)
    /\ UNCHANGED <<lingsync_doc, folded, uploadVars, convVars, mainVars>>

\* lingsync2old, lines 520-554: the Conversion Result goes to update_state;
\* in the loop over the sessions, when it is not None.
FoldMapped ==
    /\ oldobj # NoObject
    /\ folded = NotFolded
    /\ folded' =
          [done |-> TRUE,
           old_data |->
              IF lingsync_doc.collection = "sessions" /\ oldobj = ReturnsNone
              THEN EmptyStore ELSE update_state(oldobj, EmptyStore)]
    /\ UNCHANGED <<lingsync_doc, oldobj, uploadVars, convVars, mainVars>>

\* A mapper is handed one document.
InitMap ==
    /\ UploadStart(Scenario(BaseStore, BaseDestination))
    /\ IdleConversion
    /\ IdleMain
    /\ lingsync_doc \in
            DatumDocs \cup DatalistDocs \cup SessionDocs \cup UserDocs
    /\ oldobj = NoObject
    /\ folded = NotFolded

NextMap ==
    \/ MapDatum
    \/ MapDatalist
    \/ MapSession
    \/ MapUser
    \/ FoldMapped

SpecMap == InitMap /\ [][NextMap]_vars

----------------------------------------------------------------------------
(* Properties of the mappers.                                              *)

\* needle is a run of consecutive characters of text.
Contains(text, needle) ==
    \E k \in 0..(Len(text) - Len(needle)) :
        SubSeq(text, k + 1, k + Len(needle)) = needle

\* The length-bounded fields of a converted resource: the source value, the
\* maximum, the converted field and the resource's free text.
BoundedFields(document, converted) ==
    LET old_value == converted.old_value
    IN  CASE converted.old_resource = "forms" ->
                {[value |-> document.utterance, max |-> FieldMax,
                  field |-> old_value.transcription,
                  text |-> old_value.comments],
                 [value |-> document.morphemes, max |-> FieldMax,
                  field |-> old_value.morpheme_break,
                  text |-> old_value.comments],
                 [value |-> document.phonetic, max |-> FieldMax,
                  field |-> old_value.phonetic_transcription,
                  text |-> old_value.comments],
                 [value |-> document.gloss, max |-> FieldMax,
                  field |-> old_value.morpheme_gloss,
                  text |-> old_value.comments],
                 [value |-> document.syntacticTreeLatex, max |-> SyntaxMax,
                  field |-> old_value.syntax,
                  text |-> old_value.comments]}
          [] converted.old_resource = "corpora" ->
                {[value |-> document.title, max |-> FieldMax,
                  field |-> old_value.name,
                  text |-> old_value.description]}
          [] converted.old_resource = "collections" ->
                {[value |-> document.goal, max |-> FieldMax,
                  field |-> old_value.title,
                  text |-> old_value.description]}
          [] OTHER -> {}

Warned(converted, value) ==
    \E k \in 1..Len(converted.docspecific) :
        converted.docspecific[k].value = value

\* C20: for every length-bounded field (transcription, morpheme break,
\* phonetic transcription and morpheme gloss of a form with maximum 255,
\* syntax of a form with maximum 1023, title of a collection and name of a
\* corpus with maximum 255), a source value longer than the maximum N is
\* converted to exactly its first N characters, the untruncated value is
\* found verbatim in the comments or description of the converted resource,
\* and a docspecific warning is emitted.
C20_TruncationRoundTrip ==
    oldobj # NoObject =>
        \A b \in BoundedFields(lingsync_doc, oldobj) :
            Len(b.value) > b.max =>
                /\ b.field = SubSeq(b.value, 1, b.max)
                /\ Contains(b.text, b.value)
                /\ Warned(oldobj, b.value)

\* The session date a mapper was given.
SourceDate(document) ==
    IF document.collection = "datums"
    THEN document.session.dateElicited ELSE document.dateElicited

\* A date that exists, written YYYY-MM-DD, and one written MM/DD/YYYY.
DateExists(year, month, day) ==
    /\ IsNumber(year) /\ IsNumber(month) /\ IsNumber(day)
    /\ int(year) >= 1
    /\ int(month) \in 1..12
    /\ int(day) \in 1..DaysIn(int(year), int(month))

InYMDForm(t) ==
    /\ Len(t) = 10 /\ t[5] = "-" /\ t[8] = "-"
    /\ DateExists(SubSeq(t, 1, 4), SubSeq(t, 6, 7), SubSeq(t, 9, 10))

InMDYForm(t) ==
    /\ Len(t) = 10 /\ t[3] = "/" /\ t[6] = "/"
    /\ DateExists(SubSeq(t, 7, 10), SubSeq(t, 1, 2), SubSeq(t, 4, 5))

Unparseable(t) ==
    /\ t # <<>>
    /\ strptime(t, "%Y-%m-%d").raises
    /\ strptime(t, "%m/%d/%Y").raises

DateWarnings(converted) ==
    Cardinality({k \in 1..Len(converted.docspecific) :
                    converted.docspecific[k].attr = "unparseable date"})

\* C21: a session date written YYYY-MM-DD or MM/DD/YYYY is stored as
\* MM/DD/YYYY in the date field of the form and of the collection; a date
\* that cannot be parsed leaves the date field empty, with exactly one
\* docspecific warning about it from the datum mapper and none from the
\* session mapper.
C21_DateNormalization ==
    oldobj.old_resource \in {"forms", "collections"} =>
        LET t == SourceDate(lingsync_doc)
            date_elicited == oldobj.old_value.date_elicited
        IN  /\ InYMDForm(t) =>
                date_elicited =
                    SubSeq(t, 6, 7) \o <<"/">> \o SubSeq(t, 9, 10) \o
                    <<"/">> \o SubSeq(t, 1, 4)
            /\ InMDYForm(t) => date_elicited = t
            /\ Unparseable(t) =>
                /\ date_elicited = <<>>
                /\ DateWarnings(oldobj) =
                        IF oldobj.old_resource = "forms" THEN 1 ELSE 0

\* C23: a session marked deleted at the source puts nothing into the
\* Staging Store, neither a collection nor an auxiliary speaker or user; a
\* datum marked deleted still puts its form there, and the form carries the
\* flag on which the uploader deletes it after creating it.
C23_DeletedSessionVsDatum ==
    folded.done =>
        /\ (lingsync_doc.collection = "sessions" /\ lingsync_doc.trashed) =>
                folded.old_data = EmptyStore
        /\ (lingsync_doc.collection = "datums" /\ lingsync_doc.trashed) =>
                /\ Len(folded.old_data.forms) = 1
                /\ folded.old_data.forms[1].lingsync_deleted

\* A deleted session that names a consultant and a user was mapped and
\* the result went through the fold.
C23_Witness ==
    /\ folded.done
    /\ lingsync_doc.collection = "sessions"
    /\ lingsync_doc.trashed
    /\ lingsync_doc.fields
    /\ lingsync_doc.user # <<>>
    /\ lingsync_doc.consultants = <<"D", "S">>

\* The consultants value a mapper was given.
SourceConsultants(document) ==
    IF document.collection = "datums"
    THEN document.session.consultants ELSE document.consultants

IsCapitalized(token) == token = capitalize(lower(token))

\* The names of the speakers a consultants value stands for: the two words
\* of a capitalized pair name one speaker, otherwise every token names one.
InferredNames(consultants) ==
    LET tokens == split(consultants)
    IN  IF Len(tokens) = 2 /\ IsCapitalized(tokens[1])
           /\ IsCapitalized(tokens[2])
        THEN <<<<tokens[1], tokens[2]>>>>
        ELSE [k \in 1..Len(tokens) |->
                IF upper(tokens[k]) = tokens[k]
                THEN <<<<Head(tokens[k])>>, Tail(tokens[k])>>
                ELSE <<tokens[k], tokens[k]>>]

ManyConsultantsWarnings(converted) ==
    {k \in 1..Len(converted.docspecific) :
        converted.docspecific[k].attr = "more than one consultant"}

\* C24: the session mapper and the datum mapper infer the same speakers
\* from a consultants value: one speaker from two capitalized tokens, else
\* one per token (first character and rest of an all-uppercase token, any
\* other token as both names); the first is the document's speaker, all are
\* auxiliary speakers, and there is a warning exactly when they are several.
C24_SpeakerInference ==
    oldobj.old_resource \in {"forms", "collections"} =>
        LET names == InferredNames(SourceConsultants(lingsync_doc))
            speakers == oldobj.auxiliary.speakers
        IN  /\ [k \in 1..Len(speakers) |-> SpeakerKey(speakers[k])] = names
            /\ oldobj.old_value.speaker =
                    IF Len(speakers) >= 1 THEN speakers[1] ELSE NoSpeaker
            /\ ManyConsultantsWarnings(oldobj) # {} <=> Len(names) > 1

\* The raw username a mapper promotes to a user.
SourceUsername(document) ==
    IF document.collection = "datums"
    THEN document.enteredByUser ELSE document.user

FakeEmailWarnings(converted) ==
    {w \in Range(converted.general) \cup Range(converted.docspecific) :
        w.attr = "fake email"}

\* C25: when a mapper makes a user out of a raw username (the user field of
\* a session, the enteredByUser field of a datum), the user has the
\* placeholder email and the role administrator, is an auxiliary user and
\* the elicitor of the document, and the Conversion Result has a warning
\* about the made-up email.
C25_ElicitorInference ==
    (/\ oldobj.old_resource \in {"forms", "collections"}
     /\ SourceUsername(lingsync_doc) # <<>>) =>
        LET elicitor == oldobj.old_value.elicitor
        IN  /\ elicitor # NoUser
            /\ elicitor.username = SourceUsername(lingsync_doc)
            /\ elicitor.email = FAKE_EMAIL
            /\ elicitor.role = "administrator"
            /\ elicitor \in Range(oldobj.auxiliary.users)
            /\ FakeEmailWarnings(oldobj) # {}

\* C26: no null payload is stored in the Staging Store: a document whose
\* mapper gives a null payload (a user document without a username) adds
\* nothing to any resource list.
C26_NoNullPayloadStaged ==
    folded.done =>
        \A key \in DOMAIN folded.old_data :
            \A k \in 1..Len(folded.old_data[key]) :
                folded.old_data[key][k] # None

----------------------------------------------------------------------------
(* Further properties of the references sent by the upload.                *)

\* A create of a form, a corpus or a collection is sent in this step.
SendsForwardCreate ==
    /\ Len(requests') = Len(requests) + 1
    /\ requests'[Len(requests')].op = "create"
    /\ requests'[Len(requests')].rtype \in {"forms", "corpora", "collections"}

\* The identifiers a part of the Relational Map holds.
MapValues(m) == {m[x] : x \in DOMAIN m}

MappedFileIds ==
    UNION {Range(relational_map.files[d]) : d \in DOMAIN relational_map.files}

\* C27: a create request of a form, a collection or a corpus carries only
\* resolved references: speaker and elicitor are null or identifiers that
\* are in the Relational Map when the request is sent, tags and files are
\* identifiers of the Relational Map, the migration tag among the tags; no
\* staged payload is sent in their place.
C27_OnlyResolvedReferences ==
    [][SendsForwardCreate =>
        LET req == requests'[Len(requests')]
        IN  /\ \/ req.speaker = 0
               \/ req.speaker \in MapValues(relational_map.speakers)
            /\ \/ req.elicitor = 0
               \/ req.elicitor \in MapValues(relational_map.users)
            /\ \A k \in 1..Len(req.tags) :
                    req.tags[k] \in MapValues(relational_map.tags)
            /\ MigrationTagId # 0
            /\ req.tags # <<>>
            /\ req.tags[Len(req.tags)] = MigrationTagId
            /\ \A k \in 1..Len(req.files) :
                    req.files[k] \in MappedFileIds]_vars

\* A form went out with its speaker, its elicitor and its files resolved,
\* and with one of its two staged tags and the migration tag, the other
\* staged tag having no identifier.
C27_Witness ==
    \E k \in RequestIndices :
        /\ IsCreate(k) /\ requests[k].rtype = "forms"
        /\ requests[k].speaker # 0
        /\ requests[k].elicitor # 0
        /\ requests[k].files # <<>>
        /\ Len(old_data.forms[requests[k].src].tags) = 2
        /\ Len(requests[k].tags) = 2

----------------------------------------------------------------------------
(* Media files over several runs.                                           *)

\* Run n sent a request for the file of datum d.
FetchedIn(n, d) ==
    \E e \in EventsOf(log, n, "requests_get") : log[e].arg = d

\* The download of the file of datum d failed in run n.
FailedIn(n, d) ==
    \E e \in EventsOf(log, n, "download_failed") : log[e].arg = d

\* The last download of the file of datum d before the current run failed.
FailedEarlier(d) ==
    \E n \in 1..(run - 1) :
        /\ FailedIn(n, d)
        /\ \A m \in (n + 1)..(run - 1) : ~FetchedIn(m, d)

\* The current run keeps the file payload of datum d, with a local path.
KeptNow(d) ==
    \E k \in DOMAIN downloaded_files :
        /\ downloaded_files[k].lingsync_datum_id = d
        /\ downloaded_files[k].local_file_path

\* C28: after a failed download of a file, a later run without
\* force_file_download keeps the payload of that file, with its local
\* path, only if it has fetched the content again and the fetch succeeded.
C28_FailedDownloadNotKept ==
    \A k \in DOMAIN log :
        LET d == log[k].arg
        IN  (/\ log[k].ev = "download_failed"
             /\ FailedEarlier(d)
             /\ ~options.force_file_download
             /\ KeptNow(d))
            => (FetchedIn(run, d) /\ ~FailedIn(run, d))

\* upload, lines 2545-2557: the step that loads the Staging Store file.
UploadReads == mpc = "upload" /\ pc = "waiting" /\ pc' = "login"

\* C29: when upload loads the Staging Store file, every rewrite of the
\* raw-documents file by an extraction, in this run or an earlier one, has
\* been followed by a conversion that wrote the Staging Store file,
\* whatever force_convert is.
C29_NoStaleStagingStore ==
    [][UploadReads =>
        \A k \in DOMAIN log :
            log[k].ev = "write_lingsync_json" =>
                \E j \in DOMAIN log :
                    j > k /\ log[j].ev = "write_old_data"]_vars

\* The rows of the conversion hold a datum, and every session among them
\* is deleted.
DatumsWithoutSession ==
    /\ \E k \in DOMAIN rows : rows[k].collection = "datums"
    /\ \A k \in DOMAIN rows :
          rows[k].collection = "sessions" => rows[k].trashed

\* C30: the conversion of rows that hold datums but no session, or only
\* deleted sessions, raises nothing; once the loop over datums is over
\* every datum has been folded into the Staging Store as a form, no
\* collection is staged, and the conversion ends with the Staging Store
\* file written.
C30_DatumsWithoutSessionConvert ==
    DatumsWithoutSession =>
        /\ cpc # "crashed"
        /\ "collections" \notin old_keys
        /\ cpc \notin {"idle", "sessions", "datums"} =>
              /\ "forms" \in old_keys
              /\ \A k \in DOMAIN rows :
                    rows[k].collection = "datums" =>
                        \E e \in EventsOf(log, run, "update_state") :
                            log[e].arg = rows[k].id
        /\ (mpc \in {"upload", "done"} /\ rows # <<>>) =>
              /\ EventsOf(log, run, "write_old_data") # {}
              /\ old_json.exists

----------------------------------------------------------------------------
(* Further properties of the Staging Store.                                *)

\* A fold: update_state ran and the conversion goes on.
FoldStep == cpc = "folding" /\ cpc' = "folding"

\* C22: while Conversion Results are folded into the Staging Store with
\* update_state, no resource list holds two equal payloads, and a fold
\* removes and reorders nothing: a list is left as it was (the payload was
\* in it) or has one payload more at its end, which was not in it.
C22_FoldAppendsWithoutRepeats ==
    /\ [](cpc = "folding" =>
            \A kind \in ConsolidatedKinds : NoRepeat(staging[kind]))
    /\ [][FoldStep =>
            \A kind \in ConsolidatedKinds :
                \/ staging'[kind] = staging[kind]
                \/ /\ Len(staging'[kind]) = Len(staging[kind]) + 1
                   /\ SubSeq(staging'[kind], 1, Len(staging[kind]))
                        = staging[kind]
                   /\ staging'[kind][Len(staging'[kind])]
                        \notin Range(staging[kind])]_vars

\* Two users and a tag were folded in.
C22_Witness ==
    /\ cpc = "folding"
    /\ Len(staging.users) = 2
    /\ Len(staging.tags) = 1

====
